---- MODULE Spec2Model ----
(***************************************************************************)
(* A model of nb_quality_profile: the per-cell metric computer             *)
(* (notebook_profiler.py, text_quality.py) and the corpus walkers          *)
(* (notebook_profiler.nb_multidir_profiler, nb_visualiser._dir_walker).    *)
(*                                                                         *)
(* Text is a sequence of one-character strings, so that Python's strip,    *)
(* splitlines, split and join are computed as Python computes them.        *)
(***************************************************************************)
EXTENDS Integers, Sequences, FiniteSets, TLC

VARIABLES
    pc,        \* position of the per-cell or per-document call:
               \* "start" | "done" | "raised" ("idle" during a walk)
    call,      \* the call being made: function name and arguments (for a
               \* corpus walk: which walker, and its keyword arguments)
    ret,       \* what the call returned
    strict,    \* what the strict analyzer (radon) was asked and how it ended
    rt,        \* the readtime provider's estimate for the call's text, in seconds
    wpc,       \* position of the corpus walk: "idle" | "walk" | "done" | "raised"
    fs,        \* the directory tree: the set of files below the root
    pending,   \* files the walk has not reached yet
    rows,      \* nb_multidir_report: the rows appended so far, in order
    cellmaps,  \* nb_multidir_cell_map and nb_multidir_text_report: one entry
               \* per file, in insertion order
    report,    \* what the walk returned
    canvas     \* nb_vis: the gap, the cursor and the plt.plot calls made so far

vars == <<pc, call, ret, strict, rt, wpc, fs, pending, rows, cellmaps, report, canvas>>
cellVars == <<pc, call, ret, strict, rt>>
walkVars == <<wpc, fs, pending, rows, cellmaps, report, canvas>>

\* ---------------------------------------------------------------- bounds

\* Longest code string of a code cell, in characters.
MaxLen == 4
\* Most lines of a markdown cell.
MaxMdLines == 3
\* Largest reading time, in seconds, the readtime provider answers.
MaxSeconds == 61
\* Most files in the directory tree a walk is given.
MaxFiles == 2
\* Most cells in a document profiled on its own
MaxCells == 3
\* Most pieces in a text block given to the screen line counters
MaxPieces == 2
\* Most segments in a track given to nb_vis
MaxSegs == 3

\* ------------------------------------------------------------ characters

Char == {"x", "#", " ", "\n", "%", "!"}
Whitespace == {" ", "\n"}

Strings(n) == UNION {[1..k -> Char] : k \in 0..n}

Min(S) == CHOOSE m \in S : \A o \in S : m <= o
Max(S) == CHOOSE m \in S : \A o \in S : m >= o

\* str.lstrip()
lstrip(s) ==
    LET keep == {i \in 1..Len(s) : s[i] \notin Whitespace}
    IN  IF keep = {} THEN <<>> ELSE SubSeq(s, Min(keep), Len(s))

\* str.strip()
strip(s) ==
    LET keep == {i \in 1..Len(s) : s[i] \notin Whitespace}
    IN  IF keep = {} THEN <<>> ELSE SubSeq(s, Min(keep), Max(keep))

\* str.startswith(prefix)
startswith(s, prefix) ==
    /\ Len(s) >= Len(prefix)
    /\ SubSeq(s, 1, Len(prefix)) = prefix

\* str.split('\n'): one more piece than there are newlines
RECURSIVE split(_)
split(s) ==
    LET nl == {i \in 1..Len(s) : s[i] = "\n"}
    IN  IF nl = {} THEN <<s>>
        ELSE <<SubSeq(s, 1, Min(nl) - 1)>> \o split(SubSeq(s, Min(nl) + 1, Len(s)))

\* str.splitlines(): no piece for the empty string, none after a final newline
splitlines(s) ==
    IF s = <<>> THEN <<>>
    ELSE LET p == split(s)
         IN  IF p[Len(p)] = <<>> THEN SubSeq(p, 1, Len(p) - 1) ELSE p

\* '\n'.join(lines)
RECURSIVE join(_)
join(lines) ==
    IF lines = <<>> THEN <<>>
    ELSE IF Len(lines) = 1 THEN lines[1]
    ELSE lines[1] \o <<"\n">> \o join(Tail(lines))

\* ------------------------------------------ tolerant line classifier

IsBlankLine(l) == strip(l) = <<>>
IsCommentLine(l) == startswith(strip(l), <<"#">>)

\* A classifier whose comment test is not an elif of the blank test's else:
\* every non-blank line counts as code, a comment line also as a comment.
code_block_summarise_no_elif(lines) ==
    << Cardinality({i \in 1..Len(lines) : IsBlankLine(lines[i])}),
       Cardinality({i \in 1..Len(lines) : IsCommentLine(lines[i])}),
       Cardinality({i \in 1..Len(lines) : ~IsBlankLine(lines[i])}) >>

\* _code_block_summarise(lines, 0, 0, 0) for a list of lines:
\* <<n_blank_code_lines, n_single_line_comment_code_lines, n_code_lines>>
code_block_summarise(lines) ==
    << Cardinality({i \in 1..Len(lines) : IsBlankLine(lines[i])}),
       Cardinality({i \in 1..Len(lines) :
                       ~IsBlankLine(lines[i]) /\ IsCommentLine(lines[i])}),
       Cardinality({i \in 1..Len(lines) :
                       ~IsBlankLine(lines[i]) /\ ~IsCommentLine(lines[i])}) >>

\* code_block_report(c): <<n_total, n_blank, n_comment, n_code>>
code_block_report(c) ==
    LET lines == splitlines(strip(c))
        s == code_block_summarise(lines)
    IN  <<Len(lines), s[1], s[2], s[3]>>

\* ------------------------------------------------ strict analyzer

\* radon.raw.analyze(source), an external library: each line is stripped;
\* an empty line is blank, a line that is only a comment is a single
\* comment, any other line is a source line; `comments` counts the comment
\* tokens, so an inline comment adds to comments and to sloc;
\* loc = sloc + blank + multi + single_comments.  (No string literal can be
\* written in Char, so multi = 0.)
analyze(source) ==
    LET lines == splitlines(source)
        idx == 1..Len(lines)
        blank == Cardinality({i \in idx : strip(lines[i]) = <<>>})
        single == Cardinality({i \in idx : startswith(strip(lines[i]), <<"#">>)})
        comments == Cardinality({i \in idx : \E k \in 1..Len(lines[i]) : lines[i][k] = "#"})
        sloc == Len(lines) - blank - single
    IN  [loc |-> sloc + blank + single, blank |-> blank, comments |-> comments,
         sloc |-> sloc, multi |-> 0, single_comments |-> single]

\* An r_analyze that does not strip, and counts the empty piece after a
\* final newline as a blank line
r_analyze_counting_final_newline(c) ==
    LET r == analyze(c)
        extra == IF c # <<>> /\ c[Len(c)] = "\n" THEN 1 ELSE 0
    IN  <<r.loc + extra, r.blank + extra, r.comments, r.sloc>>

\* r_analyze(c): <<n_total, n_blank, n_comment, n_code>>
r_analyze(c) ==
    LET r == analyze(strip(c))
    IN  <<r.loc, r.blank, r.comments, r.sloc>>

\* A sanitiser that tests the prefix without lstrip(): an indented
\* directive is passed through.
sanitise_no_lstrip(c) ==
    LET ls == splitlines(c)
    IN  join([i \in 1..Len(ls) |->
                IF startswith(ls[i], <<"%">>) \/ startswith(ls[i], <<"!">>)
                THEN <<"#">> \o ls[i] ELSE ls[i]])

\* sanitise_IPython_code(c)
sanitise_IPython_code(c) ==
    LET ls == splitlines(c)
    IN  join([i \in 1..Len(ls) |->
                IF \/ startswith(lstrip(ls[i]), <<"%">>)
                   \/ startswith(lstrip(ls[i]), <<"!">>)
                THEN <<"#">> \o ls[i] ELSE ls[i]])

\* cleansed_radon(c), inside robust_code_cell_analyse
cleansed_radon(c) == r_analyze(sanitise_IPython_code(c))

\* ------------------------------------------------------ reading time

CODE_LINE_READING_TIME == 1

\* code_reading_time(n_code_lines, n_single_line_comment_code_lines, line_time)
code_reading_time(n_code_lines, n_comment_lines, line_time) ==
    line_time * (n_code_lines + n_comment_lines)

\* Minutes by truncation: int(seconds / 60)
minutes_floor(seconds) == seconds \div 60

\* math.ceil(seconds / 60), seconds a whole number >= 0
minutes_ceil(seconds) == (seconds + 59) \div 60

\* ------------------------------------------- robust_code_cell_analyse

\* A parser choice that ignores the cell magic marker
effective_parser_no_magic(c, parser) == parser

\* The parser robust_code_cell_analyse ends up with: 'local' for a cell
\* that starts with '%%', the caller's otherwise
effective_parser(c, parser) ==
    IF startswith(c, <<"%", "%">>) THEN "local" ELSE parser

\* A fallback that classifies the sanitised code
robust_response_fallback_sanitised(c, parser, raised) ==
    IF parser = "radon"
    THEN IF raised THEN code_block_report(sanitise_IPython_code(c))
         ELSE cleansed_radon(c)
    ELSE code_block_report(c)

\* _response of robust_code_cell_analyse, given whether the strict
\* analyzer raised: try cleansed_radon(c), except: code_block_report(c)
robust_response(c, parser, raised) ==
    IF parser = "radon"
    THEN IF raised THEN code_block_report(c) ELSE cleansed_radon(c)
    ELSE code_block_report(c)

\* The response dict built from _response
code_cell_response(r) ==
    LET t == code_reading_time(r[4], r[3], CODE_LINE_READING_TIME)
    IN  [n_total_code_lines |-> r[1],
         n_blank_code_lines |-> r[2],
         n_single_line_comment_code_lines |-> r[3],
         n_code_lines |-> r[4],
         n_screen_lines |-> r[1],
         reading_time_s |-> t,
         reading_time_mins |-> minutes_ceil(t)]

NotCalled == [called |-> FALSE, arg |-> <<>>, raised |-> FALSE]
NoReturn == [kind |-> "none"]
NoCellMaps == [cell_map |-> <<>>, text_report |-> <<>>]
NoCanvas == [gap |-> 0, x |-> 0, y |-> 0, track |-> 0, seg |-> 0, drawn |-> <<>>]

\* robust_code_cell_analyse(c, parser).  Whether radon raises on a given
\* source is radon's and the interpreter's business: either outcome.
RobustCodeCellAnalyse ==
    /\ pc = "start"
    /\ call.fn = "robust_code_cell_analyse"
    /\ \E raised \in BOOLEAN :
         LET p == effective_parser(call.c, call.parser)
         IN  /\ (p # "radon" => ~raised)
             /\ strict' = IF p = "radon"
                          THEN [called |-> TRUE,
                                arg |-> sanitise_IPython_code(call.c),
                                raised |-> raised]
                          ELSE NotCalled
             /\ ret' = [kind |-> "code"] @@ code_cell_response(robust_response(call.c, p, raised))
    /\ pc' = "done"
    /\ UNCHANGED <<call, rt>>
    /\ UNCHANGED walkVars

\* ------------------------------------------------ Text-Flow Counter

LINE_WIDTH == 160

\* The chunks textwrap splits a text into: maximal runs of whitespace and
\* of other characters, each as [ws, n] (is it whitespace, its length)
RECURSIVE chunks_of(_)
chunks_of(s) ==
    IF s = <<>> THEN <<>>
    ELSE LET w == s[1] \in Whitespace
             run == Min({i \in 1..Len(s) : (s[i] \in Whitespace) # w}
                        \cup {Len(s) + 1}) - 1
         IN  <<[ws |-> w, n |-> run]>> \o chunks_of(SubSeq(s, run + 1, Len(s)))

RECURSIVE chunk_sum(_, _)
chunk_sum(chs, k) == IF k = 0 THEN 0 ELSE chs[k].n + chunk_sum(chs, k - 1)

\* len(textwrap.wrap(l, width)), from TextWrapper._wrap_chunks: a line takes
\* the chunks that fit, a chunk longer than a whole line is broken, leading
\* whitespace is dropped on every line but the first and trailing whitespace
\* on every line; a line left empty is not emitted.  n: lines so far.
RECURSIVE wrap_chunks(_, _, _)
wrap_chunks(chs0, width, n) ==
    IF chs0 = <<>> THEN n
    ELSE
    LET chs == IF chs0[1].ws /\ n > 0 THEN Tail(chs0) ELSE chs0
        k == Max({j \in 0..Len(chs) : chunk_sum(chs, j) <= width})
        cur_len == chunk_sum(chs, k)
        rest == SubSeq(chs, k + 1, Len(chs))
        long == rest # <<>> /\ rest[1].n > width
        space_left == width - cur_len
        \* the line's chunks, after _handle_long_word
        line == IF long
                THEN SubSeq(chs, 1, k) \o <<[ws |-> rest[1].ws, n |-> space_left]>>
                ELSE SubSeq(chs, 1, k)
        rest2 == IF long
                 THEN <<[ws |-> rest[1].ws, n |-> rest[1].n - space_left]>> \o Tail(rest)
                 ELSE rest
        kept == IF line # <<>> /\ (line[Len(line)].ws \/ line[Len(line)].n = 0)
                THEN SubSeq(line, 1, Len(line) - 1) ELSE line
    IN  wrap_chunks(rest2, width, IF kept # <<>> THEN n + 1 ELSE n)

wrap_count(l, width) == wrap_chunks(chunks_of(l), width, 0)

\* str.split('\n\n')
RECURSIVE split_paragraphs(_)
split_paragraphs(s) ==
    LET at == {i \in 1..(Len(s) - 1) : s[i] = "\n" /\ s[i + 1] = "\n"}
    IN  IF at = {} THEN <<s>>
        ELSE <<SubSeq(s, 1, Min(at) - 1)>>
             \o split_paragraphs(SubSeq(s, Min(at) + 2, Len(s)))

RECURSIVE wrap_total(_, _)
wrap_total(pieces, width) ==
    IF pieces = <<>> THEN 0
    ELSE wrap_count(Head(pieces), width) + wrap_total(Tail(pieces), width)

\* notebook_profiler._count_screen_lines(txt, width)
count_screen_lines(txt, width) == wrap_total(split_paragraphs(txt), width)

\* ------------------------------------------------- markdown features

\* The backquote character (a TLA+ string cannot hold one)
Backquote == "bq"
\* The fence marker, three backquotes
Fence == <<Backquote, Backquote, Backquote>>

MdScanStart ==
    [in_code_block |-> FALSE, n_headers |-> 0, n_paras |-> 0, n_code_blocks |-> 0,
     n_total_code_lines |-> 0, n_code_lines |-> 0, n_blank_code_lines |-> 0,
     n_single_line_comment_code_lines |-> 0]

\* A loop body that looks for a heading before it looks at the block state
md_step_heading_first(l, st) ==
    IF startswith(strip(l), Fence)
    THEN [st EXCEPT !.in_code_block = ~st.in_code_block,
                    !.n_code_blocks = IF ~st.in_code_block THEN @ + 1 ELSE @]
    ELSE IF startswith(l, <<"#">>)
    THEN [st EXCEPT !.n_headers = @ + 1]
    ELSE IF st.in_code_block
    THEN LET s == code_block_summarise(splitlines(l))
         IN  [st EXCEPT !.n_total_code_lines = @ + 1,
                        !.n_blank_code_lines = @ + s[1],
                        !.n_single_line_comment_code_lines = @ + s[2],
                        !.n_code_lines = @ + s[3]]
    ELSE IF strip(l) = <<>>
    THEN [st EXCEPT !.n_paras = @ + 1]
    ELSE st

\* One pass of the loop of _report_md_features over line l
md_step(l, st) ==
    IF startswith(strip(l), Fence)
    THEN [st EXCEPT !.in_code_block = ~st.in_code_block,
                    !.n_code_blocks = IF ~st.in_code_block THEN @ + 1 ELSE @]
    ELSE IF st.in_code_block
    THEN LET s == code_block_summarise(splitlines(l))
         IN  [st EXCEPT !.n_total_code_lines = @ + 1,
                        !.n_blank_code_lines = @ + s[1],
                        !.n_single_line_comment_code_lines = @ + s[2],
                        !.n_code_lines = @ + s[3]]
    ELSE IF startswith(l, <<"#">>)
    THEN [st EXCEPT !.n_headers = @ + 1]
    ELSE IF strip(l) = <<>>
    THEN [st EXCEPT !.n_paras = @ + 1]
    ELSE st

RECURSIVE md_scan(_, _)
md_scan(lines, st) ==
    IF lines = <<>> THEN st ELSE md_scan(Tail(lines), md_step(Head(lines), st))

\* _report_md_features(txt)
report_md_features(txt) ==
    [n_screen_lines |-> count_screen_lines(txt, LINE_WIDTH)]
    @@ md_scan(split(strip(txt)), MdScanStart)

\* process_extras(doc): the fields this package computes (the sentence
\* statistics, key terms and acronyms are the answers of the providers); seconds
\* is readtime's estimate for doc.text
process_extras(txt, seconds) ==
    LET f == report_md_features(txt)
        line_of_code_overhead == 1
        t == seconds + code_reading_time(f.n_code_lines,
                                         f.n_single_line_comment_code_lines,
                                         line_of_code_overhead)
    IN  [n_headers |-> f.n_headers,
         n_paras |-> f.n_paras,
         n_screen_lines |-> f.n_screen_lines,
         n_code_blocks |-> f.n_code_blocks,
         n_total_code_lines |-> f.n_total_code_lines,
         n_code_lines |-> f.n_code_lines,
         n_blank_code_lines |-> f.n_blank_code_lines,
         n_single_line_comment_code_lines |-> f.n_single_line_comment_code_lines,
         reading_time_s |-> t,
         reading_time_mins |-> minutes_ceil(t)]

\* md_readtime(md, reading_rate, rounding_override, rounded_minutes), seconds
\* being readtime's estimate for md at reading_rate
md_readtime(seconds, rounding_override, rounded_minutes) ==
    IF ~rounding_override /\ rounded_minutes THEN minutes_ceil(seconds) ELSE seconds

ProcessExtras ==
    /\ pc = "start"
    /\ call.fn = "process_extras"
    /\ ret' = [kind |-> "md"] @@ process_extras(call.text, rt)
    /\ pc' = "done"
    /\ UNCHANGED <<call, strict, rt>>
    /\ UNCHANGED walkVars

MdReadtime ==
    /\ pc = "start"
    /\ call.fn = "md_readtime"
    /\ ret' = [kind |-> "readtime",
               value |-> md_readtime(rt, call.rounding_override, call.rounded_minutes)]
    /\ pc' = "done"
    /\ UNCHANGED <<call, strict, rt>>
    /\ UNCHANGED walkVars

\* ------------------------------------------- the per-cell specification

MdLine == {Fence, <<" ">> \o Fence, <<"#", "x">>, <<>>, <<"x">>, <<" ">>}
MdTexts == {join(ls) : ls \in UNION {[1..k -> MdLine] : k \in 0..MaxMdLines}}

WalkIdle ==
    /\ wpc = "idle"
    /\ fs = <<>>
    /\ pending = {}
    /\ rows = <<>>
    /\ cellmaps = NoCellMaps
    /\ report = NoReturn
    /\ canvas = NoCanvas

InitCell ==
    /\ pc = "start"
    /\ ret = NoReturn
    /\ strict = NotCalled
    /\ \/ /\ call \in [fn : {"robust_code_cell_analyse"}, c : Strings(MaxLen),
                       parser : {"radon", "local"}]
          /\ rt = 0
       \/ /\ call \in [fn : {"process_extras"}, text : MdTexts]
          /\ rt \in 0..MaxSeconds
       \/ /\ call \in [fn : {"md_readtime"}, rounding_override : BOOLEAN,
                       rounded_minutes : BOOLEAN]
          /\ rt \in 0..MaxSeconds
    /\ WalkIdle

NextCell ==
    \/ RobustCodeCellAnalyse
    \/ ProcessExtras
    \/ MdReadtime

SpecCell == InitCell /\ [][NextCell]_vars

\* ------------------------------------------ claims about a single cell

IsCodeCall == call.fn = "robust_code_cell_analyse"
ReturnedCode == pc = "done" /\ ret.kind = "code"
\* The response came from the strict analyzer
FromStrict == strict.called /\ ~strict.raised

LinesAddUp(r) ==
    r.n_total_code_lines
        = r.n_blank_code_lines + r.n_single_line_comment_code_lines + r.n_code_lines

\* C5: whatever the code string, the counts of the tolerant classifier
\* (code_block_report with _code_block_summarise) add up:
\* total lines = blank + single-line comment + executable.
C5_TolerantLinesAddUp ==
    (ReturnedCode /\ ~FromStrict) => LinesAddUp(ret)

\* A code string with a line of each class went through the tolerant classifier.
C5_Witness ==
    /\ ReturnedCode
    /\ ~strict.called
    /\ ret.n_blank_code_lines >= 1
    /\ ret.n_single_line_comment_code_lines >= 1
    /\ ret.n_code_lines >= 1

\* C6: every record robust_code_cell_analyse returns satisfies
\* total = blank + comment + executable, whichever analyzer produced it.
C6_EveryResponseAddsUp ==
    ReturnedCode => LinesAddUp(ret)

\* C7: a cell whose source begins with '%%' is never passed to the strict
\* analyzer, whatever parser the caller asked for: its metrics are the
\* tolerant classifier's.
C7_CellMagicNeverStrict ==
    (IsCodeCall /\ pc = "done" /\ startswith(call.c, <<"%", "%">>))
        => /\ ~strict.called
           /\ ret = [kind |-> "code"] @@ code_cell_response(code_block_report(call.c))

\* A '%%' cell was analysed by a caller who asked for radon.
C7_Witness ==
    /\ IsCodeCall
    /\ pc = "done"
    /\ startswith(call.c, <<"%", "%">>)
    /\ call.parser = "radon"
    /\ ret.n_code_lines >= 1

\* C8: robust_code_cell_analyse returns a record for every code string, and
\* when the strict analyzer raises, the record is the tolerant classifier's
\* result for the original, unsanitised code.
C8_StrictFailureContained ==
    /\ (IsCodeCall /\ pc = "done") => ret.kind = "code"
    /\ (IsCodeCall /\ pc = "done" /\ strict.called /\ strict.raised)
          => ret = [kind |-> "code"] @@ code_cell_response(code_block_report(call.c))

\* The strict analyzer raised on code whose sanitised form the tolerant
\* classifier counts differently from the original.
C8_Witness ==
    /\ IsCodeCall
    /\ pc = "done"
    /\ strict.called
    /\ strict.raised
    /\ code_block_report(call.c) # code_block_report(strict.arg)

\* What the claim says becomes of one line: a line whose first non-blank
\* character is '%' or '!' gets a '#' in front, any other line is unchanged.
Neutralised(l) ==
    IF lstrip(l) # <<>> /\ lstrip(l)[1] \in {"%", "!"} THEN <<"#">> \o l ELSE l

NeutralisedLines(c) ==
    [i \in 1..Len(splitlines(c)) |-> Neutralised(splitlines(c)[i])]

DropFinalEmptyLine(ls) ==
    IF ls # <<>> /\ ls[Len(ls)] = <<>> THEN SubSeq(ls, 1, Len(ls) - 1) ELSE ls

\* C9 as stated: the strict analyzer is only called on the code with every
\* '%' or '!' line turned into a comment, every other line unchanged, and
\* the number and order of the lines preserved.
C9_LinesPreserved ==
    strict.called => splitlines(strict.arg) = NeutralisedLines(call.c)

\* C9 as amended: the same, except that a final empty line of the code is
\* lost (the lines are joined with '\n', with no newline after the last).
C9_LinesPreservedButFinalEmpty ==
    strict.called
        => splitlines(strict.arg) = DropFinalEmptyLine(NeutralisedLines(call.c))

\* The strict analyzer was called on code with an indented directive line,
\* which was commented out, and another line, which was not.
C9_Witness ==
    /\ strict.called
    /\ LET ls == splitlines(call.c)
           out == splitlines(strict.arg)
       IN  /\ \E i \in 1..Len(out) :
                 /\ startswith(ls[i], <<" ">>)
                 /\ Neutralised(ls[i]) # ls[i]
                 /\ out[i] = <<"#">> \o ls[i]
           /\ \E j \in 1..Len(out) :
                 /\ ls[j] # <<>>
                 /\ out[j] = ls[j]

\* m is the ceiling of s / 60
IsCeilingOfMinutes(m, s) == m * 60 >= s /\ (m - 1) * 60 < s

\* The minutes of a cell metric are the ceiling of its seconds
CellMinutesAreCeiling ==
    (pc = "done" /\ ret.kind \in {"code", "md"})
        => /\ IsCeilingOfMinutes(ret.reading_time_mins, ret.reading_time_s)
           /\ (ret.reading_time_s = 0 => ret.reading_time_mins = 0)
           /\ (ret.reading_time_s = 1 => ret.reading_time_mins = 1)

\* C10 (as stated): every cell metric has
\* reading_time_mins = ceil(reading_time_s / 60) (0 s is 0 min, 1 s is
\* 1 min): markdown cells (process_extras), code cells
\* (robust_code_cell_analyse), and md_readtime whenever rounded_minutes is
\* requested.
C10_MinutesAreCeilingWheneverRequested ==
    /\ CellMinutesAreCeiling
    /\ (pc = "done" /\ ret.kind = "readtime" /\ call.rounded_minutes)
          => IsCeilingOfMinutes(ret.value, rt)

\* C10 (amended): the same, with md_readtime giving the ceiling when
\* rounded_minutes is requested and rounding_override is not set.
C10_MinutesAreCeiling ==
    /\ (pc = "done" /\ ret.kind \in {"code", "md"})
          => /\ IsCeilingOfMinutes(ret.reading_time_mins, ret.reading_time_s)
             /\ (ret.reading_time_s = 0 => ret.reading_time_mins = 0)
             /\ (ret.reading_time_s = 1 => ret.reading_time_mins = 1)
    /\ (pc = "done" /\ ret.kind = "readtime"
          /\ call.rounded_minutes /\ ~call.rounding_override)
          => IsCeilingOfMinutes(ret.value, rt)

\* A markdown cell whose fenced code takes its reading time past a whole
\* minute: 61 s, reported as 2 min.
C10_Witness ==
    /\ pc = "done"
    /\ ret.kind = "md"
    /\ ret.n_code_lines >= 1
    /\ ret.reading_time_s = 61
    /\ ret.reading_time_mins = 2

\* ------------------------------------------------- the directory tree

\* exclude_paths, when exclude == 'default'
ExcludeDefault == {".ipynb_checkpoints", ".git", ".ipynb", "__MACOSX"}

\* The directory a walk is given, and the directories below it (each as
\* the names from the root down)
Root == "root"
Dirs == {<<>>, <<"a">>, <<".git">>, <<"a", ".git">>, <<".git", "a">>}
FileNames == {"n.ipynb", ".ipynb", "t.md"}
Paths == [dir : Dirs, name : FileNames]

\* The names of the tree in Python's string order
NameOrder == <<".git", ".ipynb", "a", "n.ipynb", "root", "t.md">>
rank(name) == CHOOSE i \in 1..Len(NameOrder) : NameOrder[i] = name

\* f.endswith('.ipynb'), and a match of rglob("*.ipynb")
EndsWithIpynb(name) == name \in {"n.ipynb", ".ipynb"}
\* os.path.splitext(fn)[1]: a name that is all extension has none
splitext(name) ==
    CASE name = "n.ipynb" -> ".ipynb"
      [] name = ".ipynb" -> ""
      [] name = "t.md" -> ".md"
      [] name = "s.Rmd" -> ".Rmd"
      [] name = "p.py" -> ".py"
      [] name = "d.txt" -> ".txt"
      [] name = "dir" -> ""

\* _path.split('/') of the directory of f, for a walk started at Root
dir_parts(f) == <<Root>> \o f.dir
\* Path(fn).parts
file_parts(f) == <<Root>> \o f.dir \o <<f.name>>

\* Cells: the source, and for a markdown cell the answers of the two
\* providers for that source (textacy's n_words, readtime's seconds)
Md1 == [cell_type |-> "markdown", source |-> <<"#", "x">>, n_words |-> 1, seconds |-> 1]
Md2 == [cell_type |-> "markdown", source |-> join(<<Fence, <<"x">>, Fence>>),
        n_words |-> 3, seconds |-> 59]
Code1 == [cell_type |-> "code", source |-> <<"x", "\n", "#", "\n">>,
          n_words |-> 0, seconds |-> 0]

\* Documents: a notebook that parses, with its cells; a file that is not a
\* notebook (reading or parsing it raises); a file that cannot be opened
DocA == [state |-> "ok", cells |-> <<Md1, Code1, Md2>>]
DocB == [state |-> "ok", cells |-> <<Code1, Md1>>]
DocCorrupt == [state |-> "corrupt", cells |-> <<>>]
DocNoOpen == [state |-> "noopen", cells |-> <<>>]
Documents == {DocA, DocB, DocCorrupt, DocNoOpen}

Trees ==
    UNION {[P -> Documents] : P \in {Q \in SUBSET Paths : Cardinality(Q) <= MaxFiles}}

\* ------------------------------------------------ per-document reports

\* The row process_notebook_md_doc gives for a markdown cell, with the
\* columns process_notebook_md adds (the text and the readability scores of
\* the provider are left out)
md_row(cell, i, fn) ==
    process_extras(cell.source, cell.seconds)
    @@ [n_words |-> cell.n_words, cell_count |-> i - 1, cell_type |-> "md",
        filename |-> fn]

\* The row process_notebook_code_text gives for a code cell, with the
\* columns process_notebook adds; radon is taken not to raise
code_row(cell, i, fn) ==
    code_cell_response(robust_response(cell.source,
                                       effective_parser(cell.source, "radon"), FALSE))
    @@ [cell_count |-> i - 1, cell_type |-> "code", filename |-> fn]

\* A loop over the cells that gives up at the first cell of another type
RECURSIVE cell_rows_stop_at_other(_, _, _, _)
cell_rows_stop_at_other(cells, i, fn, types) ==
    IF i > Len(cells) THEN <<>>
    ELSE IF cells[i].cell_type = "markdown" /\ "markdown" \in types
    THEN <<md_row(cells[i], i, fn)>> \o cell_rows_stop_at_other(cells, i + 1, fn, types)
    ELSE IF cells[i].cell_type = "code" /\ "code" \in types
    THEN <<code_row(cells[i], i, fn)>> \o cell_rows_stop_at_other(cells, i + 1, fn, types)
    ELSE <<>>

RECURSIVE cell_rows(_, _, _, _)
cell_rows(cells, i, fn, types) ==
    IF i > Len(cells) THEN <<>>
    ELSE (IF cells[i].cell_type = "markdown" /\ "markdown" \in types
          THEN <<md_row(cells[i], i, fn)>>
          ELSE IF cells[i].cell_type = "code" /\ "code" \in types
          THEN <<code_row(cells[i], i, fn)>>
          ELSE <<>>)
         \o cell_rows(cells, i + 1, fn, types)

\* process_notebook(nb, fn): a row per markdown cell and per code cell
process_notebook(cells, fn) == cell_rows(cells, 1, fn, {"markdown", "code"})

\* process_notebook_md(nb, fn): a row per markdown cell
process_notebook_md(cells, fn) == cell_rows(cells, 1, fn, {"markdown"})

\* process_notebook_file(fn): open() is outside the try, the read and the
\* profiling inside it
process_notebook_file(fn, doc) ==
    IF doc.state = "noopen" THEN [raised |-> TRUE, rows |-> <<>>]
    ELSE IF doc.state = "corrupt" THEN [raised |-> FALSE, rows |-> <<>>]
    ELSE [raised |-> FALSE, rows |-> process_notebook_md(doc.cells, fn)]

\* _nb_dir_file_profiler(path, _f)
nb_dir_file_profiler(fn, doc) ==
    IF EndsWithIpynb(fn.name) THEN process_notebook_file(fn, doc)
    ELSE [raised |-> FALSE, rows |-> <<>>]

\* An exclusion test that looks at the last component only
excluded_last_only(parts) == parts[Len(parts)] \in ExcludeDefault

\* set(exclude_paths).intersection(set(parts)) is not empty
excluded(parts) == ExcludeDefault \cap {parts[i] : i \in 1..Len(parts)} # {}

\* ---------------------------------------------- nb_multidir_profiler

RECURSIVE parts_less(_, _)
parts_less(p, q) ==
    IF q = <<>> THEN FALSE
    ELSE IF p = <<>> THEN TRUE
    ELSE IF p[1] # q[1] THEN rank(p[1]) < rank(q[1])
    ELSE parts_less(Tail(p), Tail(q))

\* The order sort_values(by=['path', 'filename']) puts two rows in
row_less(r1, r2) ==
    \/ parts_less(r1.path, r2.path)
    \/ r1.path = r2.path /\ parts_less(file_parts(r1.filename), file_parts(r2.filename))

\* A sort_values that leaves the frame in the order of appending
sort_values_as_appended(seq) == seq

\* nb_multidir_report.sort_values(by=['path', 'filename']); rows with the
\* same keys keep their order
RECURSIVE sort_values(_)
sort_values(seq) ==
    IF seq = <<>> THEN <<>>
    ELSE LET n == Len(seq)
             init == sort_values(SubSeq(seq, 1, n - 1))
             k == Cardinality({j \in 1..Len(init) : ~row_less(seq[n], init[j])})
         IN  SubSeq(init, 1, k) \o <<seq[n]>> \o SubSeq(init, k + 1, Len(init))

with_path(rs, path) == [i \in 1..Len(rs) |-> rs[i] @@ [path |-> path]]

\* One file of os.walk's listing, in whatever order the file system gives
\* them: a file in an excluded directory is passed over, any other is
\* profiled and its rows, if any, appended with their path.
MultidirVisit ==
    /\ wpc = "walk"
    /\ call.fn = "nb_multidir_profiler"
    /\ \E f \in pending :
         LET got == IF excluded(dir_parts(f))
                    THEN [raised |-> FALSE, rows |-> <<>>]
                    ELSE nb_dir_file_profiler(f, fs[f])
         IN  IF got.raised
             THEN /\ wpc' = "raised"
                  /\ report' = [kind |-> "raised", error |-> "OSError", at |-> f]
                  /\ UNCHANGED <<pending, rows>>
             ELSE /\ rows' = rows \o with_path(got.rows, dir_parts(f))
                  /\ pending' = pending \ {f}
                  /\ UNCHANGED <<wpc, report>>
    /\ UNCHANGED <<fs, cellmaps>>
    /\ UNCHANGED cellVars
    /\ UNCHANGED canvas

\* After the walk: sort, reset the index, return.  A frame nothing was
\* appended to has no 'path' column, and sort_values raises KeyError.
MultidirFinish ==
    /\ wpc = "walk"
    /\ call.fn = "nb_multidir_profiler"
    /\ pending = {}
    /\ IF rows = <<>>
       THEN /\ wpc' = "raised"
            /\ report' = [kind |-> "raised", error |-> "KeyError"]
       ELSE /\ wpc' = "done"
            /\ report' = [kind |-> "frame", rows |-> sort_values(rows)]
    /\ UNCHANGED <<fs, pending, rows, cellmaps>>
    /\ UNCHANGED cellVars
    /\ UNCHANGED canvas

\* ------------------------------------- nb_big_parse_nb on a directory

VIS_COLOUR_MAP == [markdown |-> "cornflowerblue", code |-> "pink", raw |-> "orange"]

\* nb_visualiser's _count_screen_lines(txt, width): the text is split at
\* every '\n' before wrapping
vis_count_screen_lines(txt, width) == wrap_total(split(txt), width)

\* fmts of _nb_big_parse_nb
fmts(text_formats) ==
    IF text_formats THEN {".ipynb", ".md", ".Rmd", ".py"} ELSE {".ipynb"}

RECURSIVE vis_cell_map(_)
vis_cell_map(cells) ==
    IF cells = <<>> THEN <<>>
    ELSE (IF Head(cells).cell_type \in DOMAIN VIS_COLOUR_MAP
          THEN <<[lines |-> vis_count_screen_lines(Head(cells).source, LINE_WIDTH),
                  colour |-> VIS_COLOUR_MAP[Head(cells).cell_type]]>>
          ELSE <<>>)
         \o vis_cell_map(Tail(cells))

RECURSIVE vis_reading_time(_, _)
vis_reading_time(cells, rounded_minutes) ==
    IF cells = <<>> THEN 0
    ELSE (IF Head(cells).cell_type = "markdown"
          THEN md_readtime(Head(cells).seconds, TRUE, rounded_minutes)
          ELSE 0)
         + vis_reading_time(Tail(cells), rounded_minutes)

\* _nb_big_parse_nb(fn, text_formats, rounded_minutes=...) for a file of
\* the tree (the imports report is left out): nothing in it catches what
\* open() or nbformat.reads raise
nb_big_parse_nb_file(fn, doc, text_formats, rounded_minutes) ==
    IF splitext(fn.name) \notin fmts(text_formats)
    THEN [raised |-> FALSE, cell_map |-> <<>>, has_text_report |-> FALSE, reading_time |-> 0]
    ELSE IF doc.state = "noopen"
    THEN [raised |-> TRUE, error |-> "OSError"]
    ELSE IF doc.state = "corrupt"
    THEN [raised |-> TRUE, error |-> "ReaderError"]
    ELSE LET t == vis_reading_time(doc.cells, rounded_minutes)
         IN  [raised |-> FALSE,
              cell_map |-> vis_cell_map(doc.cells),
              has_text_report |-> TRUE,
              reading_time |-> IF rounded_minutes THEN minutes_ceil(t) ELSE t]

\* The first of sorted(path.rglob("*.ipynb")) not yet visited
first_pending == CHOOSE f \in pending :
                    \A g \in pending \ {f} : parts_less(file_parts(f), file_parts(g))

\* One turn of the loop of _dir_walker: the next match of the sorted
\* listing is passed over if any of its parts is excluded, else parsed
\* and its non-empty reports entered under its name.
DirWalkerVisit ==
    /\ wpc = "walk"
    /\ call.fn = "nb_big_parse_nb"
    /\ pending # {}
    /\ LET f == first_pending
           got == IF excluded(file_parts(f))
                  THEN [raised |-> FALSE, cell_map |-> <<>>,
                        has_text_report |-> FALSE, reading_time |-> 0]
                  ELSE nb_big_parse_nb_file(f, fs[f], TRUE, call.rounded_minutes)
       IN  IF got.raised
           THEN /\ wpc' = "raised"
                /\ report' = [kind |-> "raised", error |-> got.error, at |-> f]
                /\ UNCHANGED <<pending, cellmaps>>
           ELSE /\ cellmaps' =
                     [cell_map |->
                          cellmaps.cell_map
                          \o (IF got.cell_map # <<>>
                              THEN <<[fn |-> f, cell_map |-> got.cell_map]>>
                              ELSE <<>>),
                      text_report |->
                          cellmaps.text_report
                          \o (IF got.has_text_report
                              THEN <<[fn |-> f, reading_time |-> got.reading_time]>>
                              ELSE <<>>)]
                /\ pending' = pending \ {f}
                /\ UNCHANGED <<wpc, report>>
    /\ UNCHANGED <<fs, rows>>
    /\ UNCHANGED cellVars
    /\ UNCHANGED canvas

\* The listing is exhausted: the dicts are returned
DirWalkerFinish ==
    /\ wpc = "walk"
    /\ call.fn = "nb_big_parse_nb"
    /\ pending = {}
    /\ wpc' = "done"
    /\ report' = [kind |-> "dict"] @@ cellmaps
    /\ UNCHANGED <<fs, pending, rows, cellmaps>>
    /\ UNCHANGED cellVars
    /\ UNCHANGED canvas

\* --------------------------------------------- notebook_report_feedstock

SummedColumns ==
    {"n_words", "reading_time_mins", "reading_time_s", "n_code_lines",
     "n_single_line_comment_code_lines", "n_total_code_lines", "n_blank_code_lines"}

\* A column of a row; a row without the column holds NaN, which sum() skips
value_of(row, col) == IF col \in DOMAIN row THEN row[col] ELSE 0

\* A group "sum" that keeps the value of the last row of the group
RECURSIVE group_last(_, _, _)
group_last(rs, path, col) ==
    IF rs = <<>> THEN 0
    ELSE IF rs[Len(rs)].path = path THEN value_of(rs[Len(rs)], col)
    ELSE group_last(SubSeq(rs, 1, Len(rs) - 1), path, col)

\* A group sum that takes in the rows of the directories below the path
RECURSIVE group_sum_with_subdirectories(_, _, _)
group_sum_with_subdirectories(rs, path, col) ==
    IF rs = <<>> THEN 0
    ELSE (IF Len(Head(rs).path) >= Len(path) /\ SubSeq(Head(rs).path, 1, Len(path)) = path
          THEN value_of(Head(rs), col) ELSE 0)
         + group_sum_with_subdirectories(Tail(rs), path, col)

\* ddf.groupby(['path'])[col].sum() at one path
RECURSIVE group_sum(_, _, _)
group_sum(rs, path, col) ==
    IF rs = <<>> THEN 0
    ELSE (IF Head(rs).path = path THEN value_of(Head(rs), col) ELSE 0)
         + group_sum(Tail(rs), path, col)

\* ddf[ddf['cell_type'] == t].groupby(['path']).size(), 'NA' for no group
cell_count_of(rs, path, t) ==
    LET n == Cardinality({i \in 1..Len(rs) : rs[i].path = path /\ rs[i].cell_type = t})
    IN  IF n = 0 THEN "NA" ELSE n

notebook_report_feedstock(ddf) ==
    [k \in {ddf[i].path : i \in 1..Len(ddf)} |->
        [col \in SummedColumns |-> group_sum(ddf, k, col)]
        @@ [nb_count |-> Cardinality({ddf[i].filename : i \in {j \in 1..Len(ddf) : ddf[j].path = k}}),
            path |-> k,
            n_code_cells |-> cell_count_of(ddf, k, "code"),
            n_md_cells |-> cell_count_of(ddf, k, "md")]]

\* ------------------------------------------------------------- reporter

\* A template is its pieces in order: literal text and {name} placeholders
Lit(txt) == [lit |-> txt]
Field(name) == [field |-> name]

\* report_template_full
report_template_full ==
    <<Lit("In directory "), Field("path"), Lit(" there were "), Field("nb_count"),
      Lit(" notebooks. - total markdown wordcount "), Field("n_words"),
      Lit(" words across "), Field("n_md_cells"),
      Lit(" markdown cells - total code line count of "), Field("n_total_code_lines"),
      Lit(" lines of code across "), Field("n_code_cells"),
      Lit(" code cells - "), Field("n_code_lines"),
      Lit(" code lines, "), Field("n_single_line_comment_code_lines"),
      Lit(" comment lines and "), Field("n_blank_code_lines"),
      Lit(" blank lines. Estimated total reading time of "), Field("reading_time_mins"),
      Lit(" minutes.")>>

\* Templates a caller may pass: the full one, one that names a field the
\* feedstock does not have after one it has, and one without placeholders
Templates ==
    {report_template_full,
     <<Lit("In "), Field("path"), Lit(": "), Field("n_cells"), Lit(" cells")>>,
     <<Lit("A directory.")>>}

\* path_filter arguments.  No name of the tree contains another name or a
\* '/', so `path_filter in d` holds for these exactly when the filter is
\* empty or is one of the names of d.
PathFilters == {"", "a", "zz"}
path_filter_in(path_filter, d) ==
    path_filter = "" \/ \E i \in 1..Len(d) : d[i] = path_filter

\* A str.format that leaves out a placeholder it has no value for
RECURSIVE format_blank_missing(_, _, _)
format_blank_missing(template, i, d) ==
    IF i > Len(template) THEN [raised |-> FALSE, text |-> <<>>]
    ELSE LET rest == format_blank_missing(template, i + 1, d)
         IN  IF "lit" \in DOMAIN template[i]
             THEN [raised |-> FALSE, text |-> <<template[i]>> \o rest.text]
             ELSE IF template[i].field \notin DOMAIN d
             THEN rest
             ELSE [raised |-> FALSE, text |-> <<[str |-> d[template[i].field]]>> \o rest.text]

\* template.format(**d) from piece i on: the pieces left to right, each
\* placeholder replaced by str() of the value of its name; a name that is
\* not a key of d raises KeyError
RECURSIVE format(_, _, _)
format(template, i, d) ==
    IF i > Len(template) THEN [raised |-> FALSE, text |-> <<>>]
    ELSE IF "field" \in DOMAIN template[i] /\ template[i].field \notin DOMAIN d
    THEN [raised |-> TRUE, field |-> template[i].field]
    ELSE LET rest == format(template, i + 1, d)
         IN  IF rest.raised THEN rest
             ELSE [raised |-> FALSE,
                   text |-> <<IF "lit" \in DOMAIN template[i]
                              THEN template[i]
                              ELSE [str |-> d[template[i].field]]>> \o rest.text]

\* The keys of the feedstock in the order of the dict: groupby sorts them
RECURSIVE feedstock_keys(_)
feedstock_keys(keys) ==
    IF keys = {} THEN <<>>
    ELSE LET k == CHOOSE d \in keys : \A e \in keys \ {d} : parts_less(d, e)
         IN  <<k>> \o feedstock_keys(keys \ {k})

\* for d in feedstock: if path_filter in d: report_txt = report_txt
\* + '\n\n' + template.format(**feedstock[d])
RECURSIVE reporter_loop(_, _, _, _)
reporter_loop(feedstock, keys, template, path_filter) ==
    IF keys = <<>> THEN [raised |-> FALSE, text |-> <<>>]
    ELSE IF ~path_filter_in(path_filter, Head(keys))
    THEN reporter_loop(feedstock, Tail(keys), template, path_filter)
    ELSE LET txt == format(template, 1, feedstock[Head(keys)])
             rest == reporter_loop(feedstock, Tail(keys), template, path_filter)
         IN  IF txt.raised THEN txt
             ELSE IF rest.raised THEN rest
             ELSE [raised |-> FALSE, text |-> <<Lit("\n\n")>> \o txt.text \o rest.text]

\* reporter(df, template, path_filter)
reporter(df, template, path_filter) ==
    LET feedstock == notebook_report_feedstock(df)
        got == reporter_loop(feedstock, feedstock_keys(DOMAIN feedstock),
                             template, path_filter)
    IN  IF got.raised
        THEN [kind |-> "raised", error |-> "KeyError", field |-> got.field]
        ELSE [kind |-> "text", text |-> got.text]

\* reporter called on the frame nb_multidir_profiler returned
Reporter ==
    /\ wpc = "done"
    /\ call.fn = "nb_multidir_profiler"
    /\ \E template \in Templates, path_filter \in PathFilters :
         /\ call' = [fn |-> "reporter", template |-> template, path_filter |-> path_filter]
         /\ ret' = reporter(report.rows, template, path_filter)
    /\ wpc' = "reported"
    /\ UNCHANGED <<pc, strict, rt>>
    /\ UNCHANGED <<fs, pending, rows, cellmaps, report, canvas>>

\* ------------------------------------------------------- the corpus walk

\* A walk of a tree under Root by either walker.  nb_multidir_profiler
\* sees every file os.walk lists, _dir_walker the matches of
\* rglob("*.ipynb").
Init ==
    /\ pc = "idle"
    /\ ret = NoReturn
    /\ strict = NotCalled
    /\ rt = 0
    /\ call \in {[fn |-> "nb_multidir_profiler"]}
                \cup [fn : {"nb_big_parse_nb"}, rounded_minutes : BOOLEAN]
    /\ fs \in Trees
    /\ pending = IF call.fn = "nb_multidir_profiler" THEN DOMAIN fs
                 ELSE {f \in DOMAIN fs : EndsWithIpynb(f.name)}
    /\ wpc = "walk"
    /\ rows = <<>>
    /\ cellmaps = NoCellMaps
    /\ report = NoReturn
    /\ canvas = NoCanvas

Next ==
    \/ MultidirVisit
    \/ MultidirFinish
    \/ DirWalkerVisit
    \/ DirWalkerFinish
    \/ Reporter

Spec == Init /\ [][Next]_vars

\* ------------------------------------------ claims about a corpus walk

IsMultidir == call.fn = "nb_multidir_profiler"
IsDirWalker == call.fn = "nb_big_parse_nb"

\* Some component of a path is a name of the exclusion set
HasExcludedComponent(parts) == \E i \in 1..Len(parts) : parts[i] \in ExcludeDefault

files_of(rs) == {rs[i].filename : i \in 1..Len(rs)}
entries_of(es) == {es[i].fn : i \in 1..Len(es)}

\* The files with a row or an entry in anything accumulated or returned
Contributors ==
    files_of(rows)
    \cup entries_of(cellmaps.cell_map)
    \cup entries_of(cellmaps.text_report)
    \cup (IF report.kind = "frame" THEN files_of(report.rows) ELSE {})
    \cup (IF report.kind = "dict"
          THEN entries_of(report.cell_map) \cup entries_of(report.text_report)
          ELSE {})

\* C1 (as stated): under either walker, a document whose path, file name
\* included, has a component equal to a name of the exclusion set
\* contributes no row and no entry to any report, at any depth.
C1_ExcludedPathContributesNothing ==
    \A f \in Contributors : ~HasExcludedComponent(file_parts(f))

\* C1 (amended): under either walker, a document in a directory whose path
\* has a component equal to a name of the exclusion set contributes no row
\* and no entry to any report, at any depth below the root.
C1_ExcludedDirectoryContributesNothing ==
    \A f \in Contributors : ~HasExcludedComponent(dir_parts(f))

\* Two notebooks that parse, one directly under the root and one under an
\* excluded directory two levels down; the finished report reflects only
\* the first.
C1_Witness ==
    /\ wpc = "done"
    /\ \E f, g \in DOMAIN fs :
         /\ f.dir = <<"a", ".git">> /\ f.name = "n.ipynb" /\ fs[f] = DocA
         /\ g.dir = <<>> /\ g.name = "n.ipynb" /\ fs[g] = DocB
         /\ Contributors = {g}

\* C2: a document that cannot be read or parsed never aborts the walk of
\* either walker; the walk runs to completion.
C2_FailingDocumentNeverAborts ==
    wpc = "raised" => \A f \in DOMAIN fs : fs[f].state = "ok"

\* C3: the per-directory sums, notebook count and cell counts of
\* notebook_report_feedstock are the same whatever the order in which the
\* files and directories were discovered and appended: the feedstock of
\* the rows as appended equals that of the rows in their one canonical
\* order, at every point of the walk and for the returned frame.
C3_FeedstockOrderIndependent ==
    IsMultidir =>
        /\ notebook_report_feedstock(rows) = notebook_report_feedstock(sort_values(rows))
        /\ report.kind = "frame" =>
               notebook_report_feedstock(report.rows) = notebook_report_feedstock(rows)

\* Two notebooks of one directory were appended in an order other than
\* the sorted one, and the directory's word count is the sum over both.
C3_Witness ==
    /\ IsMultidir
    /\ wpc = "done"
    /\ report.kind = "frame"
    /\ rows # report.rows
    /\ \E f, g \in files_of(rows) :
         /\ f # g /\ f.dir = g.dir
         /\ fs[f] = DocA /\ fs[g] = DocB
         /\ notebook_report_feedstock(report.rows)[dir_parts(f)].n_words = 5
         /\ notebook_report_feedstock(report.rows)[dir_parts(f)].nb_count = 2

rows_of(rs, f) ==
    LET of_f(r) == r.filename = f
    IN  SelectSeq(rs, of_f)

\* C4: the report nb_multidir_profiler returns holds, for each notebook it
\* visited, one row for every markdown cell and every code cell, as
\* process_notebook computes them.
C4_ReportHasMarkdownAndCodeRows ==
    (IsMultidir /\ report.kind = "frame") =>
        \A f \in DOMAIN fs :
            (EndsWithIpynb(f.name) /\ ~HasExcludedComponent(dir_parts(f))
             /\ fs[f].state = "ok")
            => rows_of(report.rows, f)
                   = with_path(process_notebook(fs[f].cells, f), dir_parts(f))

\* The seconds _nb_big_parse_nb sums over the markdown cells of a document
document_seconds(doc) == vis_reading_time(doc.cells, FALSE)

\* C11: at every aggregation level that carries minutes, the minutes are
\* the ceiling of the aggregate's summed seconds: for each directory of
\* notebook_report_feedstock, reading_time_mins = ceil(reading_time_s / 60),
\* and for each document of _nb_big_parse_nb with rounded_minutes, the
\* reading time is the ceiling of the summed seconds of its markdown cells.
C11_AggregateMinutesAreCeiling ==
    /\ (IsMultidir /\ report.kind = "frame") =>
          \A k \in DOMAIN notebook_report_feedstock(report.rows) :
              IsCeilingOfMinutes(notebook_report_feedstock(report.rows)[k].reading_time_mins,
                                 notebook_report_feedstock(report.rows)[k].reading_time_s)
    /\ (IsDirWalker /\ report.kind = "dict" /\ call.rounded_minutes) =>
          \A i \in 1..Len(report.text_report) :
              IsCeilingOfMinutes(report.text_report[i].reading_time,
                                 document_seconds(fs[report.text_report[i].fn]))

\* ------------------------------------ claims about markdown features

IsMdReturn == pc = "done" /\ ret.kind = "md"

\* The lines _report_md_features looks at
MdLinesOf(txt) == split(strip(txt))

\* A line that starts with three backquotes, read to the letter
StartsWithFence(l) == startswith(l, Fence)
\* A line whose first non-blank characters are three backquotes
StartsWithFenceAfterBlanks(l) == startswith(strip(l), Fence)

\* What C12 says of a text, given which of its lines are fence lines
\* (fences is the set of their positions)
FencedCounts(ls, fences) ==
    LET idx == 1..Len(ls)
        before(i) == Cardinality({j \in fences : j < i})
        inside == {i \in idx \ fences : before(i) % 2 = 1}
        outside == {i \in idx \ fences : before(i) % 2 = 0}
        comments == {i \in inside : startswith(strip(ls[i]), <<"#">>)}
        executable == {i \in inside \ comments : strip(ls[i]) # <<>>}
        headers == {i \in outside : startswith(ls[i], <<"#">>)}
        paras == {i \in outside \ headers : strip(ls[i]) = <<>>}
    IN  [n_code_blocks |-> Cardinality({i \in fences : before(i) % 2 = 0}),
         n_code_lines |-> Cardinality(executable),
         n_single_line_comment_code_lines |-> Cardinality(comments),
         n_headers |-> Cardinality(headers),
         n_paras |-> Cardinality(paras),
         surcharge |-> Cardinality(executable) + Cardinality(comments)]

AgreesWithFencedCounts(r, seconds, f) ==
    /\ r.reading_time_s = seconds + f.surcharge
    /\ r.n_code_blocks = f.n_code_blocks
    /\ r.n_code_lines = f.n_code_lines
    /\ r.n_single_line_comment_code_lines = f.n_single_line_comment_code_lines
    /\ r.n_headers = f.n_headers
    /\ r.n_paras = f.n_paras

\* C12 (as stated): the seconds of a markdown cell are the provider's
\* estimate plus 1 s for each executable or comment line inside a fenced
\* block; the fence lines are the lines that start with three backquotes;
\* a line is inside a block iff an odd number of fence lines precede it;
\* fence lines are neither code nor heading nor paragraph break; '#' lines
\* inside a block are comments, not headings; n_code_blocks is the number
\* of opening fences.
C12_FencedCodeSurcharge ==
    IsMdReturn =>
        LET ls == MdLinesOf(call.text)
        IN  AgreesWithFencedCounts(ret, rt,
                FencedCounts(ls, {i \in 1..Len(ls) : StartsWithFence(ls[i])}))

\* C12 (amended): the same, the fence lines being the lines whose first
\* non-blank characters are three backquotes.
C12_FencedCodeSurchargeAfterBlanks ==
    IsMdReturn =>
        LET ls == MdLinesOf(call.text)
        IN  AgreesWithFencedCounts(ret, rt,
                FencedCounts(ls, {i \in 1..Len(ls) : StartsWithFenceAfterBlanks(ls[i])}))

\* A cell with a fenced block holding a '#' line: one block, one comment,
\* no heading, and one second on top of the estimate.
C12_Witness ==
    /\ IsMdReturn
    /\ call.text = join(<<Fence, <<"#", "x">>, Fence>>)
    /\ rt = 3
    /\ ret.reading_time_s = 4
    /\ ret.n_code_blocks = 1
    /\ ret.n_single_line_comment_code_lines = 1
    /\ ret.n_headers = 0

\* ------------------------------------------ one document on its own

\* Cells of the types process_notebook does not report
Raw1 == [cell_type |-> "raw", source |-> <<"x", "\n", "x">>, n_words |-> 0, seconds |-> 0]
Other1 == [cell_type |-> "other", source |-> <<"x">>, n_words |-> 0, seconds |-> 0]

CellKinds == {Md1, Md2, Code1, Raw1, Other1}
CellSeqs == UNION {[1..k -> CellKinds] : k \in 0..MaxCells}

\* The cells of a three-cell document: a markdown heading, a code cell of
\* one statement and one comment, a markdown paragraph (with the answers
\* of the providers for the two markdown sources)
TitleCell == [cell_type |-> "markdown", source |-> <<"#", " ", "T", "i", "t", "l", "e">>,
              n_words |-> 1, seconds |-> 1]
ParaCell == [cell_type |-> "markdown", source |-> <<"p", "a", "r", "a">>,
             n_words |-> 1, seconds |-> 1]
StatementAndComment ==
    <<"x", " ", "=", " ", "1", "\n", "#", " ", "c", "o", "m", "m", "e", "n", "t">>
code_cell(source) == [cell_type |-> "code", source |-> source, n_words |-> 0, seconds |-> 0]

ScenarioA == <<TitleCell, code_cell(StatementAndComment \o <<"\n">>), ParaCell>>
\* The same document with the code cell ending without a newline, with two,
\* and with a blank line between its two lines
ScenarioDocs ==
    {ScenarioA,
     <<TitleCell, code_cell(StatementAndComment), ParaCell>>,
     <<TitleCell, code_cell(StatementAndComment \o <<"\n", "\n">>), ParaCell>>,
     <<TitleCell, code_cell(<<"x", "\n", "\n", "#", "\n">>), ParaCell>>}

\* The raw argument: '' by default, or a notebook held in memory
NoRaw == [given |-> FALSE, cells |-> <<>>]
RawArgs == {NoRaw} \cup [given : {TRUE}, cells : CellSeqs]

\* The path argument, and what is at that path
PathArgs == {"", "n.ipynb", "t.md", "s.Rmd", "p.py", "d.txt", "dir"}
OnDisk == {"missing", "file", "dir"}

\* The return value of _nb_big_parse_nb for nothing to parse
EmptyResult ==
    [raised |-> FALSE, cell_map |-> <<>>, has_text_report |-> FALSE, reading_time |-> 0]

\* The loop of _nb_big_parse_nb over nb.cells, and its return value
parse_cells(cells, rounded_minutes) ==
    LET t == vis_reading_time(cells, rounded_minutes)
    IN  [raised |-> FALSE,
         cell_map |-> vis_cell_map(cells),
         has_text_report |-> TRUE,
         reading_time |-> IF rounded_minutes THEN minutes_ceil(t) ELSE t]

\* A parse that looks at the path before it looks at raw
nb_big_parse_nb_one_path_first(fn, on_disk, content, text_formats, raw, rounded_minutes) ==
    IF fn = "" \/ on_disk # "file" \/ splitext(fn) \notin fmts(text_formats)
    THEN EmptyResult
    ELSE IF raw.given THEN parse_cells(raw.cells, rounded_minutes)
    ELSE nb_big_parse_nb_file([dir |-> <<>>, name |-> fn], content,
                              text_formats, rounded_minutes)

\* _nb_big_parse_nb(fn, text_formats, raw, rounded_minutes=...): on_disk
\* is what os.path.isfile sees, content what reading the file gives
nb_big_parse_nb_one(fn, on_disk, content, text_formats, raw, rounded_minutes) ==
    IF raw.given THEN parse_cells(raw.cells, rounded_minutes)
    ELSE IF fn # ""
    THEN IF on_disk # "file" THEN EmptyResult
         ELSE nb_big_parse_nb_file([dir |-> <<>>, name |-> fn], content,
                                   text_formats, rounded_minutes)
    ELSE EmptyResult

\* nb_big_parse_nb(path, text_formats, raw, rounded_minutes=...) when it
\* does not walk a directory: the reports of the one document, keyed by path
BigParseNb ==
    /\ pc = "start"
    /\ call.fn = "nb_big_parse_nb"
    /\ ~(~call.raw.given /\ call.on_disk = "dir")
    /\ LET got == nb_big_parse_nb_one(call.path, call.on_disk, call.content,
                                      call.text_formats, call.raw, call.rounded_minutes)
       IN  IF got.raised
           THEN /\ pc' = "raised"
                /\ ret' = [kind |-> "raised", error |-> got.error]
           ELSE /\ pc' = "done"
                /\ ret' = [kind |-> "dict", path |-> call.path,
                           cell_map |-> got.cell_map,
                           has_text_report |-> got.has_text_report,
                           reading_time |-> got.reading_time]
    /\ UNCHANGED <<call, strict, rt>>
    /\ UNCHANGED walkVars

\* process_notebook(nb, fn)
ProcessNotebook ==
    /\ pc = "start"
    /\ call.fn = "process_notebook"
    /\ ret' = [kind |-> "frame", rows |-> process_notebook(call.cells, call.name)]
    /\ pc' = "done"
    /\ UNCHANGED <<call, strict, rt>>
    /\ UNCHANGED walkVars

InitDoc ==
    /\ pc = "start"
    /\ ret = NoReturn
    /\ strict = NotCalled
    /\ rt = 0
    /\ \/ call \in [fn : {"process_notebook"}, cells : CellSeqs \cup ScenarioDocs, name : {""}]
       \/ /\ call \in [fn : {"nb_big_parse_nb"}, path : PathArgs, on_disk : OnDisk,
                       content : {DocA, DocCorrupt, DocNoOpen}, raw : RawArgs,
                       text_formats : BOOLEAN, rounded_minutes : BOOLEAN]
          /\ call.path = "" => call.on_disk = "missing"
          /\ call.on_disk # "file" => call.content = DocNoOpen
          /\ ~(~call.raw.given /\ call.on_disk = "dir")
    /\ WalkIdle

NextDoc ==
    \/ ProcessNotebook
    \/ BigParseNb

SpecDoc == InitDoc /\ [][NextDoc]_vars

\* ------------------------------------------- claims about one document

\* The positions of the cells of a document whose type is one of types
PositionsOf(cells, types) == {i \in 1..Len(cells) : cells[i].cell_type \in types}

\* The cells a document-level parse used: the raw document's if one was
\* given, else those of the file
CellsParsed == IF call.raw.given THEN call.raw.cells ELSE call.content.cells

ParsedCells ==
    /\ call.fn = "nb_big_parse_nb"
    /\ pc = "done"
    /\ ret.has_text_report

\* C13: a cell of a type the profiler does not know produces no metric and
\* does not stop the profiling: every cell of a known type, before or after
\* it, gets exactly one metric, and the metrics are in the document's cell
\* order (process_notebook: strictly increasing cell_count, one row per
\* markdown or code cell; _nb_big_parse_nb: the cell map has one entry per
\* markdown, code or raw cell, in order).
C13_UnknownCellSkipped ==
    /\ call.fn = "process_notebook" => pc # "raised"
    /\ (call.fn = "process_notebook" /\ pc = "done") =>
          LET known == PositionsOf(call.cells, {"markdown", "code"})
              rs == ret.rows
          IN  /\ Len(rs) = Cardinality(known)
              /\ {rs[j].cell_count + 1 : j \in 1..Len(rs)} = known
              /\ \A j \in 1..Len(rs) :
                    /\ rs[j].cell_type
                         = (IF call.cells[rs[j].cell_count + 1].cell_type = "markdown"
                            THEN "md" ELSE "code")
                    /\ j > 1 => rs[j - 1].cell_count < rs[j].cell_count
    /\ ParsedCells =>
          LET known == PositionsOf(CellsParsed, DOMAIN VIS_COLOUR_MAP)
              m == ret.cell_map
          IN  /\ Len(m) = Cardinality(known)
              /\ \A j \in 1..Len(m) :
                    \E i \in known :
                        /\ Cardinality({k \in known : k < i}) = j - 1
                        /\ m[j].colour = VIS_COLOUR_MAP[CellsParsed[i].cell_type]
                        /\ m[j].lines
                             = vis_count_screen_lines(CellsParsed[i].source, LINE_WIDTH)

\* A document with a cell of an unknown type between a markdown cell and a
\* code cell was profiled: two rows, for cells 0 and 2.
C13_Witness ==
    /\ call.fn = "process_notebook"
    /\ pc = "done"
    /\ call.cells = <<Md1, Other1, Code1>>
    /\ Len(ret.rows) = 2
    /\ ret.rows[1].cell_count = 0
    /\ ret.rows[2].cell_count = 2
    /\ ret.rows[2].cell_type = "code"

\* The extensions C14 names as accepted
AcceptedExtensions(text_formats) ==
    IF text_formats THEN {".ipynb", ".md", ".Rmd", ".py"} ELSE {".ipynb"}

\* No raw document, and the path is empty, not an existing file, or of an
\* extension that is not accepted
NothingToParse ==
    /\ ~call.raw.given
    /\ \/ call.path = ""
       \/ call.on_disk # "file"
       \/ splitext(call.path) \notin AcceptedExtensions(call.text_formats)

ReturnedEmptyResult ==
    /\ pc = "done"
    /\ ret.cell_map = <<>>
    /\ ~ret.has_text_report

\* C14: _nb_big_parse_nb returns the empty result, without raising,
\* exactly when no raw document is given and the path is empty, is not an
\* existing file, or has an extension outside the accepted set ('.ipynb'
\* alone without text formats; '.ipynb', '.md', '.Rmd', '.py' with them).
\* With a raw document, no check of the path is made and the result is
\* that of the raw document's cells, whatever the path is.
C14_EmptyResultExactlyWhenNothingToParse ==
    (call.fn = "nb_big_parse_nb" /\ pc # "start") =>
        /\ NothingToParse <=> ReturnedEmptyResult
        /\ call.raw.given =>
              /\ pc = "done"
              /\ ret.has_text_report
              /\ ret.cell_map = vis_cell_map(call.raw.cells)
              /\ ret.reading_time
                   = (IF call.rounded_minutes
                      THEN minutes_ceil(vis_reading_time(call.raw.cells, TRUE))
                      ELSE vis_reading_time(call.raw.cells, FALSE))

\* A raw document was given with the path of a text file that does not
\* exist, text formats disabled: the raw cells were mapped.
C14_Witness ==
    /\ call.fn = "nb_big_parse_nb"
    /\ pc = "done"
    /\ call.raw.given
    /\ call.path = "d.txt"
    /\ call.on_disk = "missing"
    /\ ~call.text_formats
    /\ Len(ret.cell_map) = 3

\* --------------------------------------------- the screen line counters

Blanks(n) == [i \in 1..n |-> " "]
Word(n) == [i \in 1..n |-> "x"]

\* Text blocks are made of these pieces: single characters, two words, two
\* lines, a run of blanks one short of a full line and a word two short of it
FlowPieces ==
    {<<" ">>, <<"\n">>, <<"x">>, <<"x", " ", "x">>, <<"x", "\n", "x">>,
     Blanks(LINE_WIDTH - 1), Word(LINE_WIDTH - 2)}

RECURSIVE concat(_)
concat(pieces) ==
    IF pieces = <<>> THEN <<>> ELSE Head(pieces) \o concat(Tail(pieces))

FlowTexts == {concat(ps) : ps \in UNION {[1..k -> FlowPieces] : k \in 0..MaxPieces}}

\* notebook_profiler._count_screen_lines on a block, on another, and on
\* the two joined, at the default width
ProfilerCountScreenLines ==
    /\ pc = "start"
    /\ call.fn = "notebook_profiler._count_screen_lines"
    /\ ret' = [kind |-> "count",
               a |-> count_screen_lines(call.a, LINE_WIDTH),
               b |-> count_screen_lines(call.b, LINE_WIDTH),
               ab |-> count_screen_lines(call.a \o call.b, LINE_WIDTH)]
    /\ pc' = "done"
    /\ UNCHANGED <<call, strict, rt>>
    /\ UNCHANGED walkVars

\* The same for nb_visualiser's _count_screen_lines
VisualiserCountScreenLines ==
    /\ pc = "start"
    /\ call.fn = "nb_visualiser._count_screen_lines"
    /\ ret' = [kind |-> "count",
               a |-> vis_count_screen_lines(call.a, LINE_WIDTH),
               b |-> vis_count_screen_lines(call.b, LINE_WIDTH),
               ab |-> vis_count_screen_lines(call.a \o call.b, LINE_WIDTH)]
    /\ pc' = "done"
    /\ UNCHANGED <<call, strict, rt>>
    /\ UNCHANGED walkVars

InitFlow ==
    /\ pc = "start"
    /\ ret = NoReturn
    /\ strict = NotCalled
    /\ rt = 0
    /\ call \in [fn : {"notebook_profiler._count_screen_lines",
                       "nb_visualiser._count_screen_lines"},
                 a : FlowTexts, b : FlowTexts]
    /\ WalkIdle

NextFlow ==
    \/ ProfilerCountScreenLines
    \/ VisualiserCountScreenLines

SpecFlow == InitFlow /\ [][NextFlow]_vars

\* --------------------------------- claims about the screen line counters

Counted == pc = "done" /\ ret.kind = "count"

\* A block that is not empty and holds nothing but blanks and newlines
OnlyBlankLines(txt) ==
    /\ txt # <<>>
    /\ \A i \in 1..Len(txt) : txt[i] \in {" ", "\n"}

\* C15: a screen line counter never returns a negative count, returns 0
\* for the empty block, and for a block of blank lines only returns the
\* number of segments that splitting it at '\n' gives (each blank line
\* counting as one screen line).
C15_BlankLinesCounted ==
    Counted =>
        /\ ret.a >= 0
        /\ call.a = <<>> => ret.a = 0
        /\ OnlyBlankLines(call.a) => ret.a = Len(split(call.a))

\* C16: at width 160 a screen line counter is monotonic under
\* concatenation: for non-empty blocks A and B,
\* count(A + B) >= count(A) and count(A + B) >= count(B).
C16_MonotonicUnderConcatenation ==
    (Counted /\ call.a # <<>> /\ call.b # <<>>) =>
        /\ ret.ab >= ret.a
        /\ ret.ab >= ret.b

\* n_screen_lines of the record robust_code_cell_analyse returns for a
\* code cell of source txt (tolerant analyzer)
code_cell_screen_lines(txt) ==
    code_cell_response(robust_response(txt, "local", FALSE)).n_screen_lines

\* C17: one screen line counter serves everywhere: the counters of
\* notebook_profiler and of nb_visualiser return the same count for every
\* block, and a code cell gets the n_screen_lines a markdown cell of the
\* same source gets.
C17_OneCounterEverywhere ==
    /\ (Counted /\ call.fn = "notebook_profiler._count_screen_lines") =>
          /\ ret.a = vis_count_screen_lines(call.a, LINE_WIDTH)
          /\ ret.a = code_cell_screen_lines(call.a)
    /\ (Counted /\ call.fn = "nb_visualiser._count_screen_lines") =>
          ret.a = count_screen_lines(call.a, LINE_WIDTH)

\* ------------------------------------------------------------ nb_vis

\* Positions are in tenths of a plot unit, so that a header_gap of 0.2 is
\* the whole number 2; a segment length or a gap of n is 10 * n.  The
\* plt.text calls (labels) are left out of the drawing.

\* (length, colour) segments of a cell map
Segments == {<<0, "orange">>, <<1, "pink">>, <<99, "cornflowerblue">>}
Tracks == UNION {[1..k -> Segments] : k \in 0..MaxSegs}
SecondTracks == {<<>>, << <<99, "cornflowerblue">>, <<99, "cornflowerblue">> >>}

\* cell_map: a list of segments (one track), or a dict from label to list
CellMaps ==
    {[shape |-> "list", tracks |-> <<[label |-> "", segs |-> t]>>] : t \in Tracks}
    \cup {[shape |-> "dict", tracks |-> <<>>]}
    \cup {[shape |-> "dict", tracks |-> <<[label |-> "a", segs |-> t]>>] : t \in Tracks}
    \cup {[shape |-> "dict",
           tracks |-> <<[label |-> "a", segs |-> t], [label |-> "b", segs |-> u]>>] :
             t \in Tracks, u \in SecondTracks}

\* The gap argument: None, or a number
NoGap == [given |-> FALSE, value |-> 0]
GapArgs == {NoGap} \cup [given : {TRUE}, value : {0, 3}]

\* get_overall_length(cell_map), for one track
RECURSIVE get_overall_length(_)
get_overall_length(segs) ==
    IF segs = <<>> THEN 0 ELSE Head(segs)[1] + get_overall_length(Tail(segs))

\* math.ceil(n * 0.01); the floating point product gives the exact
\* ceiling for every n up to 100000
ceil_hundredth(n) == (n + 99) \div 100

\* A get_gap that looks at the first track only
get_gap_first_track(cell_map) ==
    IF cell_map.tracks = <<>> THEN 0
    ELSE ceil_hundredth(get_overall_length(cell_map.tracks[1].segs))

\* get_gap(cell_map)
get_gap(cell_map) ==
    ceil_hundredth(Max({0} \cup {get_overall_length(cell_map.tracks[i].segs) :
                                    i \in 1..Len(cell_map.tracks)}))

\* gap = get_gap(cell_map) * gap_boost
computed_gap(cell_map, gap_boost) == get_gap(cell_map) * gap_boost

IsVisualiserVis == call.fn = "nb_visualiser.nb_vis"
IsProfilerVis == call.fn = "notebook_profiler.nb_vis"

\* What `for k in cell_map` of nb_visualiser.nb_vis goes over: the labels
\* of a dict, the segments of a list; notebook_profiler.nb_vis calls
\* plotter once for a list and once per label for a dict
loop_length(fn, cell_map) ==
    IF fn = "nb_visualiser.nb_vis" /\ cell_map.shape = "list"
    THEN Len(cell_map.tracks[1].segs)
    ELSE Len(cell_map.tracks)

\* nb_vis up to its first loop: the cursor and the gap
NbVisStart ==
    /\ pc = "start"
    /\ call.fn \in {"nb_visualiser.nb_vis", "notebook_profiler.nb_vis"}
    /\ canvas' = [gap |-> IF IsVisualiserVis /\ call.gap.given
                          THEN 10 * call.gap.value
                          ELSE 10 * computed_gap(call.cell_map, call.gap_boost),
                  x |-> IF IsVisualiserVis THEN 10 ELSE 0,
                  y |-> 0, px |-> 0, py |-> 0,
                  track |-> 1, seg |-> 0, drawn |-> <<>>]
    /\ pc' = "track"
    /\ UNCHANGED <<call, ret, strict, rt>>
    /\ UNCHANGED <<wpc, fs, pending, rows, cellmaps, report>>

\* The call of plotter for the next track.  nb_visualiser.nb_vis indexes
\* cell_map by the loop variable, which fails for a list; plotter of
\* notebook_profiler.nb_vis is handed the keyword arguments, and has no
\* gap parameter.
PlotterCall ==
    /\ pc = "track"
    /\ canvas.track <= loop_length(call.fn, call.cell_map)
    /\ IF IsVisualiserVis /\ call.cell_map.shape = "list"
       THEN /\ pc' = "raised"
            /\ ret' = [kind |-> "raised", error |-> "TypeError"]
            /\ UNCHANGED canvas
       ELSE IF IsProfilerVis /\ call.gap.given
       THEN /\ pc' = "raised"
            /\ ret' = [kind |-> "raised", error |-> "TypeError"]
            /\ UNCHANGED canvas
       ELSE /\ pc' = "plot"
            /\ canvas' =
                 IF IsVisualiserVis
                 THEN [canvas EXCEPT !.x = @ + call.header_gap,
                                     !.px = canvas.x + call.header_gap,
                                     !.py = canvas.y,
                                     !.seg = 1]
                 ELSE IF call.orientation = "v"
                 THEN [canvas EXCEPT !.px = canvas.x,
                                     !.py = canvas.y + call.header_gap,
                                     !.seg = 1]
                 ELSE [canvas EXCEPT !.px = canvas.x + call.header_gap,
                                     !.py = canvas.y,
                                     !.seg = 1]
            /\ UNCHANGED ret
    /\ UNCHANGED <<call, strict, rt>>
    /\ UNCHANGED <<wpc, fs, pending, rows, cellmaps, report>>

\* One plt.plot call: a line from (xs[1], ys[1]) to (xs[2], ys[2])
plot(what, xs, ys, colour) ==
    [what |-> what, track |-> canvas.track, seg |-> canvas.seg,
     xs |-> xs, ys |-> ys, colour |-> colour]

\* A plotter loop that moves past the gap only when it draws the gap bar
visualiser_segment_gap_needs_colour(_cell_map) ==
    LET x == canvas.px
        y0 == canvas.py
        bar == y0 > 0 /\ call.gap_colour # ""
        y == IF bar THEN y0 + canvas.gap ELSE y0
        _y == y + 10 * _cell_map[1] + 10
    IN  [canvas EXCEPT !.drawn = @ \o (IF bar
                                       THEN <<plot("gap", <<y0, y>>, <<x, x>>, call.gap_colour)>>
                                       ELSE <<>>)
                                   \o <<plot("segment", <<y, _y>>, <<x, x>>, _cell_map[2])>>,
                       !.py = _y,
                       !.seg = @ + 1]

\* One turn of plotter's loop in nb_visualiser.nb_vis, which draws along
\* the horizontal axis: px is plotter's x, py its y
visualiser_segment(_cell_map) ==
    LET x == canvas.px
        y0 == canvas.py
        gapline == IF y0 > 0 /\ call.gap_colour # ""
                   THEN <<plot("gap", <<y0, y0 + canvas.gap>>, <<x, x>>, call.gap_colour)>>
                   ELSE <<>>
        y == IF y0 > 0 THEN y0 + canvas.gap ELSE y0
        _y == y + 10 * _cell_map[1] + 10
    IN  [canvas EXCEPT !.drawn = @ \o gapline
                                   \o <<plot("segment", <<y, _y>>, <<x, x>>, _cell_map[2])>>,
                       !.py = _y,
                       !.seg = @ + 1]

\* One turn of plotter's loop in notebook_profiler.nb_vis
profiler_segment(_cell_map) ==
    LET x == canvas.px
        y == canvas.py
        _y == IF call.gap_colour # "" THEN y + canvas.gap ELSE y
        __y == _y + 10 * _cell_map[1] + 10
        v == call.orientation = "v"
        X == IF v THEN x ELSE y
        _X == IF v THEN x ELSE _y
        __X == IF v THEN x ELSE __y
        Y == IF v THEN y ELSE x
        _Y == IF v THEN _y ELSE x
        __Y == IF v THEN __y ELSE x
        gapline == IF y > 0 /\ call.gap_colour # ""
                   THEN <<plot("gap", <<X, _X>>, <<Y, _Y>>, call.gap_colour)>>
                   ELSE <<>>
    IN  [canvas EXCEPT !.drawn = @ \o gapline
                                   \o <<plot("segment", <<_X, __X>>, <<_Y, __Y>>, _cell_map[2])>>,
                       !.py = __y,
                       !.seg = @ + 1]

\* The segments of the track plotter is working on
current_track == call.cell_map.tracks[canvas.track].segs

\* for _cell_map in cell_map: one segment, with the gap before it
PlotSegment ==
    /\ pc = "plot"
    /\ canvas.seg <= Len(current_track)
    /\ canvas' = IF IsVisualiserVis
                 THEN visualiser_segment(current_track[canvas.seg])
                 ELSE profiler_segment(current_track[canvas.seg])
    /\ UNCHANGED <<pc, call, ret, strict, rt>>
    /\ UNCHANGED <<wpc, fs, pending, rows, cellmaps, report>>

\* plotter is done with the track; nb_vis moves to the next one
PlotterReturn ==
    /\ pc = "plot"
    /\ canvas.seg > Len(current_track)
    /\ canvas' = [canvas EXCEPT !.x = IF call.cell_map.shape = "dict" THEN @ + 10 ELSE @,
                                !.track = @ + 1,
                                !.seg = 0]
    /\ pc' = "track"
    /\ UNCHANGED <<call, ret, strict, rt>>
    /\ UNCHANGED <<wpc, fs, pending, rows, cellmaps, report>>

\* Every track is drawn: the figure is what was plotted
NbVisFinish ==
    /\ pc = "track"
    /\ canvas.track > loop_length(call.fn, call.cell_map)
    /\ pc' = "done"
    /\ ret' = [kind |-> "figure", drawn |-> canvas.drawn]
    /\ UNCHANGED <<call, strict, rt, canvas>>
    /\ UNCHANGED <<wpc, fs, pending, rows, cellmaps, report>>

\* The calls of nb_vis: nb_visualiser.nb_vis draws one way only, and
\* notebook_profiler.nb_vis takes an orientation through its kwargs
NbVisCalls ==
    [fn : {"nb_visualiser.nb_vis"}, cell_map : CellMaps, gap : GapArgs,
     gap_boost : {1, 2}, gap_colour : {"lightgrey", ""}, header_gap : {0, 2},
     orientation : {"h"}]
    \cup
    [fn : {"notebook_profiler.nb_vis"}, cell_map : CellMaps, gap : GapArgs,
     gap_boost : {1, 2}, gap_colour : {"lightgrey", ""}, header_gap : {0, 2},
     orientation : {"v", "h"}]

InitVis ==
    /\ pc = "start"
    /\ call \in NbVisCalls
    /\ ret = NoReturn
    /\ strict = NotCalled
    /\ rt = 0
    /\ WalkIdle

NextVis ==
    \/ NbVisStart
    \/ PlotterCall
    \/ PlotSegment
    \/ PlotterReturn
    \/ NbVisFinish

SpecVis == InitVis /\ [][NextVis]_vars

\* ------------------------------------------------------------ C18

VisStarted == call.fn \in {"nb_visualiser.nb_vis", "notebook_profiler.nb_vis"} /\ pc # "start"

\* The sum of the segment lengths of track i of a plan
RECURSIVE TrackTotalUpTo(_, _)
TrackTotalUpTo(segs, n) ==
    IF n = 0 THEN 0 ELSE TrackTotalUpTo(segs, n - 1) + segs[n][1]
TrackTotal(cell_map, i) ==
    TrackTotalUpTo(cell_map.tracks[i].segs, Len(cell_map.tracks[i].segs))

\* g is ceil(0.01 * L) for the largest track total L of the plan
IsCeilOfLongestTrack(g, cell_map) ==
    /\ g \in Nat
    /\ \A i \in 1..Len(cell_map.tracks) : TrackTotal(cell_map, i) <= 100 * g
    /\ \/ g = 0
       \/ \E i \in 1..Len(cell_map.tracks) : TrackTotal(cell_map, i) > 100 * (g - 1)

\* The length of a drawn line, which runs along one axis
Extent(item) == (item.xs[2] - item.xs[1]) + (item.ys[2] - item.ys[1])

\* The plan with every segment length doubled
DoubledPlan(cell_map) ==
    [cell_map EXCEPT !.tracks =
        [i \in 1..Len(cell_map.tracks) |->
            [cell_map.tracks[i] EXCEPT !.segs =
                [j \in 1..Len(cell_map.tracks[i].segs) |->
                    <<2 * cell_map.tracks[i].segs[j][1], cell_map.tracks[i].segs[j][2]>>]]]]

DrawablePlan == ~(IsVisualiserVis /\ call.cell_map.shape = "list")

\* C19: a gap supplied by the caller, 0 included, is the gap of the
\* drawing in both implementations: the call draws, gap_boost is not
\* applied, and every gap bar has the supplied length.
C19_ExplicitGapOverrides ==
    (VisStarted /\ call.gap.given /\ DrawablePlan) =>
        /\ pc # "raised"
        /\ canvas.gap = 10 * call.gap.value
        /\ \A n \in 1..Len(canvas.drawn) :
              canvas.drawn[n].what = "gap" => Extent(canvas.drawn[n]) = 10 * call.gap.value

\* ------------------------------------------------------------ C20

\* What plotter is to emit for segments j.. of track t: each segment in
\* turn, with a gap bar before every segment but the first when a gap
\* colour is set
RECURSIVE ExpectedTrack(_, _, _, _)
ExpectedTrack(segs, t, j, gap_colour) ==
    IF j > Len(segs) THEN <<>>
    ELSE (IF j > 1 /\ gap_colour # "" THEN <<<<"gap", t, j, gap_colour>>>> ELSE <<>>)
         \o <<<<"segment", t, j, segs[j][2]>>>>
         \o ExpectedTrack(segs, t, j + 1, gap_colour)

RECURSIVE ExpectedPlan(_, _, _)
ExpectedPlan(cell_map, t, gap_colour) ==
    IF t > Len(cell_map.tracks) THEN <<>>
    ELSE ExpectedTrack(cell_map.tracks[t].segs, t, 1, gap_colour)
         \o ExpectedPlan(cell_map, t + 1, gap_colour)

\* The plot calls made, without their coordinates
Emitted ==
    [n \in 1..Len(canvas.drawn) |->
        <<canvas.drawn[n].what, canvas.drawn[n].track, canvas.drawn[n].seg,
          canvas.drawn[n].colour>>]

\* C20: a finished drawing holds, track by track, the segments in input
\* order with a gap bar exactly between adjacent segments, none before
\* the first segment of a track, and none at all without a gap colour;
\* in both plotters and every orientation.
C20_GapBarsOnlyBetweenSegments ==
    (VisStarted /\ pc = "done") =>
        Emitted = ExpectedPlan(call.cell_map, 1, call.gap_colour)

\* ------------------------------------------------------------ C21

\* The plot calls of plotter of notebook_profiler.nb_vis from segment j
\* of track t on, with plotter's x and y as they stand, for a call c
RECURSIVE profiler_plotter(_, _, _, _, _, _, _)
profiler_plotter(segs, j, x, y, t, c, gap) ==
    IF j > Len(segs) THEN <<>>
    ELSE LET _y == IF c.gap_colour # "" THEN y + gap ELSE y
             __y == _y + 10 * segs[j][1] + 10
             v == c.orientation = "v"
             X == IF v THEN x ELSE y
             _X == IF v THEN x ELSE _y
             __X == IF v THEN x ELSE __y
             Y == IF v THEN y ELSE x
             _Y == IF v THEN _y ELSE x
             __Y == IF v THEN __y ELSE x
             gapline == IF y > 0 /\ c.gap_colour # ""
                        THEN <<[what |-> "gap", track |-> t, seg |-> j,
                                xs |-> <<X, _X>>, ys |-> <<Y, _Y>>, colour |-> c.gap_colour]>>
                        ELSE <<>>
         IN  gapline
             \o <<[what |-> "segment", track |-> t, seg |-> j,
                   xs |-> <<_X, __X>>, ys |-> <<_Y, __Y>>, colour |-> segs[j][2]]>>
             \o profiler_plotter(segs, j + 1, x, __y, t, c, gap)

\* The plot calls of notebook_profiler.nb_vis from track t on, x being
\* the cursor of nb_vis
RECURSIVE profiler_tracks(_, _, _, _)
profiler_tracks(c, t, x, gap) ==
    IF t > Len(c.cell_map.tracks) THEN <<>>
    ELSE (IF c.orientation = "v"
          THEN profiler_plotter(c.cell_map.tracks[t].segs, 1, x, c.header_gap, t, c, gap)
          ELSE profiler_plotter(c.cell_map.tracks[t].segs, 1, x + c.header_gap, 0, t, c, gap))
         \o profiler_tracks(c, t + 1, IF c.cell_map.shape = "dict" THEN x + 10 ELSE x, gap)

\* Everything notebook_profiler.nb_vis plots for a call without a gap
\* keyword
profiler_nb_vis(c) ==
    profiler_tracks(c, 1, 0, 10 * computed_gap(c.cell_map, c.gap_boost))

\* The extents of the plot calls along the track axis: y for 'v', x for 'h'
AlongTrack(items, orientation) ==
    [n \in 1..Len(items) |->
        <<items[n].what, items[n].track, items[n].seg,
          IF orientation = "v" THEN items[n].ys ELSE items[n].xs>>]

OtherOrientation(o) == IF o = "v" THEN "h" ELSE "v"

\* The function and the step-by-step drawing are the same drawing
ProfilerDrawingIsProfilerNbVis ==
    (VisStarted /\ IsProfilerVis /\ pc = "done") => canvas.drawn = profiler_nb_vis(call)

\* C21: a finished drawing of notebook_profiler.nb_vis has the same gap
\* bars and the same extents along the track axis, bar by bar and segment
\* by segment, as the drawing of the same call in the other orientation.
C21_OrientationIsAxisSwap ==
    (VisStarted /\ IsProfilerVis /\ pc = "done") =>
        AlongTrack(canvas.drawn, call.orientation)
          = AlongTrack(profiler_nb_vis([call EXCEPT !.orientation = OtherOrientation(@)]),
                       OtherOrientation(call.orientation))

\* ------------------------------------------------------------ C22

\* The (track, segment) pairs of the segments drawn so far
SegmentsDrawn ==
    {<<canvas.drawn[n].track, canvas.drawn[n].seg>> :
        n \in {m \in 1..Len(canvas.drawn) : canvas.drawn[m].what = "segment"}}

\* The (track, segment) pairs of a plan: one track for a list, one track
\* per label for a dict
SegmentsOfPlan(cell_map) ==
    UNION {{<<t, j>> : j \in 1..Len(cell_map.tracks[t].segs)} :
              t \in 1..Len(cell_map.tracks)}

\* C22: both nb_vis implementations take a list of segments and a dict
\* from label to list of segments: the call does not raise, and the
\* finished drawing has every segment of the one track of a list, and of
\* the track of every label of a dict.
C22_BothShapesAccepted ==
    (VisStarted /\ ~call.gap.given) =>
        /\ pc # "raised"
        /\ pc = "done" => SegmentsDrawn = SegmentsOfPlan(call.cell_map)

\* ------------------------------------------------------------ C23

IsReporter == call.fn = "reporter"

\* The names a template has placeholders for
PlaceholdersOf(template) ==
    {template[i].field : i \in {j \in 1..Len(template) : "field" \in DOMAIN template[j]}}

\* The directories of the frame that reporter renders
RenderedDirectories ==
    {d \in DOMAIN notebook_report_feedstock(report.rows) :
        path_filter_in(call.path_filter, d)}

\* Some placeholder of the template names no field of the aggregate
TemplateFieldMissing ==
    \E d \in DOMAIN notebook_report_feedstock(report.rows) :
        ~(PlaceholdersOf(call.template) \subseteq DOMAIN notebook_report_feedstock(report.rows)[d])

\* reporter raised the KeyError of a missing field, and returned no text
HardError == ret.kind = "raised" /\ ret.error = "KeyError" /\ "text" \notin DOMAIN ret

\* The rendered directories in the order of the feedstock
RenderedInOrder ==
    LET passes(d) == path_filter_in(call.path_filter, d)
    IN  SelectSeq(feedstock_keys(DOMAIN notebook_report_feedstock(report.rows)), passes)

\* The text is, for each rendered directory in turn, a separator and the
\* template with every placeholder replaced by the directory's value of
\* that field
FilledFromAggregate ==
    /\ ret.kind = "text"
    /\ Len(ret.text) = Len(RenderedInOrder) * (Len(call.template) + 1)
    /\ \A k \in 1..Len(RenderedInOrder) :
          /\ ret.text[(k - 1) * (Len(call.template) + 1) + 1] = Lit("\n\n")
          /\ \A i \in 1..Len(call.template) :
                ret.text[(k - 1) * (Len(call.template) + 1) + 1 + i]
                  = IF "field" \in DOMAIN call.template[i]
                    THEN [str |-> notebook_report_feedstock(report.rows)
                                      [RenderedInOrder[k]][call.template[i].field]]
                    ELSE call.template[i]

\* C23 as stated: a template placeholder naming a field absent from the
\* aggregate is a hard error of reporter: the KeyError propagates and no
\* report text is returned.
C23_MissingFieldIsHardError ==
    (IsReporter /\ TemplateFieldMissing) => HardError

\* C23, amended: whenever at least one directory of the aggregate passes
\* path_filter, a template placeholder naming a field absent from the
\* aggregate is a hard error of reporter (the KeyError propagates, no text
\* is returned, not even that of directories already rendered), and a
\* template whose placeholders are all fields is filled from the aggregate.
C23_MissingFieldIsHardErrorWhenRendering ==
    IsReporter =>
        /\ (TemplateFieldMissing /\ RenderedDirectories # {}) => HardError
        /\ ~TemplateFieldMissing => FilledFromAggregate

\* Two directories pass the filter, the template names a field the
\* aggregate has and then one it has not, and reporter raised
C23_Witness ==
    /\ IsReporter
    /\ Cardinality(RenderedDirectories) = 2
    /\ "path" \in PlaceholdersOf(call.template)
    /\ TemplateFieldMissing
    /\ ret.kind = "raised"
    /\ ret.field = "n_cells"

\* ------------------------------------------------------------ C24

IsProcessNotebook == call.fn = "process_notebook"

CodeLineColumns == {"n_code_lines", "n_single_line_comment_code_lines", "n_blank_code_lines"}

\* The sum of a column over the rows of a frame
RECURSIVE ColumnSum(_, _)
ColumnSum(rs, col) ==
    IF rs = <<>> THEN 0 ELSE value_of(Head(rs), col) + ColumnSum(Tail(rs), col)

\* The count robust_code_cell_analyse gives a code cell and process_extras
\* a markdown cell (its fenced code), nothing for a cell of another type
PerCellCount(cell, col) ==
    IF cell.cell_type = "code"
    THEN code_cell_response(robust_response(cell.source,
                                            effective_parser(cell.source, "radon"), FALSE))[col]
    ELSE IF cell.cell_type = "markdown"
    THEN process_extras(cell.source, cell.seconds)[col]
    ELSE 0

RECURSIVE SumOverCells(_, _)
SumOverCells(cells, col) ==
    IF cells = <<>> THEN 0
    ELSE PerCellCount(Head(cells), col) + SumOverCells(Tail(cells), col)

\* The code-line counts of a code string, whether or not radon raises
CodeLineCounts(c, raised) ==
    LET r == code_cell_response(robust_response(c, effective_parser(c, "radon"), raised))
    IN  <<r.n_code_lines, r.n_single_line_comment_code_lines, r.n_blank_code_lines>>

\* C24: the code-line sums of the frame process_notebook returns are the
\* sums of the per-cell counts; for the three-cell document (markdown
\* '# Title', code 'x = 1\n# comment\n', markdown 'para') they are
\* n_code_lines 1, n_single_line_comment_code_lines 1 and
\* n_blank_code_lines 0; and a newline added to the end of a code cell
\* changes none of its counts.
C24_DocumentCodeLineSums ==
    (IsProcessNotebook /\ pc = "done") =>
        /\ \A col \in CodeLineColumns :
              ColumnSum(ret.rows, col) = SumOverCells(call.cells, col)
        /\ call.cells = ScenarioA =>
              /\ ColumnSum(ret.rows, "n_code_lines") = 1
              /\ ColumnSum(ret.rows, "n_single_line_comment_code_lines") = 1
              /\ ColumnSum(ret.rows, "n_blank_code_lines") = 0
        /\ \A i \in PositionsOf(call.cells, {"code"}), raised \in BOOLEAN :
              CodeLineCounts(call.cells[i].source \o <<"\n">>, raised)
                = CodeLineCounts(call.cells[i].source, raised)

\* The three-cell document was profiled: a row for each of its cells
C24_Witness ==
    /\ IsProcessNotebook
    /\ pc = "done"
    /\ call.cells = ScenarioA
    /\ Len(ret.rows) = 3
    /\ ret.rows[2].cell_type = "code"

\* ------------------------------------------------------------ C25

\* f comes before g by directory path, then by file name
file_less(f, g) ==
    \/ parts_less(dir_parts(f), dir_parts(g))
    \/ dir_parts(f) = dir_parts(g) /\ parts_less(file_parts(f), file_parts(g))

\* The files of a set, least first
RECURSIVE FilesInOrder(_)
FilesInOrder(files) ==
    IF files = {} THEN <<>>
    ELSE LET f == CHOOSE g \in files : \A h \in files \ {g} : file_less(g, h)
         IN  <<f>> \o FilesInOrder(files \ {f})

\* What the tree alone determines for nb_multidir_profiler: the rows of
\* its notebooks outside excluded directories, file after file in order
RECURSIVE RowsOfTree(_, _)
RowsOfTree(tree, files) ==
    IF files = <<>> THEN <<>>
    ELSE (IF HasExcludedComponent(dir_parts(Head(files))) THEN <<>>
          ELSE with_path(nb_dir_file_profiler(Head(files), tree[Head(files)]).rows,
                         dir_parts(Head(files))))
         \o RowsOfTree(tree, Tail(files))

\* The files of a set, least whole path first
RECURSIVE PathsInOrder(_)
PathsInOrder(files) ==
    IF files = {} THEN <<>>
    ELSE LET f == CHOOSE g \in files :
                     \A h \in files \ {g} : parts_less(file_parts(g), file_parts(h))
         IN  <<f>> \o PathsInOrder(files \ {f})

\* What the tree alone determines for _dir_walker: an entry for each
\* notebook outside excluded paths, file after file in order
RECURSIVE EntriesOfTree(_, _, _, _)
EntriesOfTree(tree, files, rounded_minutes, which) ==
    IF files = <<>> THEN <<>>
    ELSE LET f == Head(files)
             got == nb_big_parse_nb_file(f, tree[f], TRUE, rounded_minutes)
         IN  (IF ~EndsWithIpynb(f.name) \/ HasExcludedComponent(file_parts(f)) THEN <<>>
              ELSE IF which = "cell_map"
              THEN (IF got.cell_map # <<>> THEN <<[fn |-> f, cell_map |-> got.cell_map]>>
                    ELSE <<>>)
              ELSE (IF got.has_text_report
                    THEN <<[fn |-> f, reading_time |-> got.reading_time]>>
                    ELSE <<>>))
             \o EntriesOfTree(tree, Tail(files), rounded_minutes, which)

\* The entries of a dict are in strictly increasing path order
KeysInOrder(es) ==
    \A i, j \in 1..Len(es) : i < j => parts_less(file_parts(es[i].fn), file_parts(es[j].fn))

\* C25: what a corpus walk returns is determined by the tree alone and is
\* in lexicographic order, in whatever order the files were enumerated:
\* the frame of nb_multidir_profiler holds the rows of the tree's
\* notebooks ordered by path and then file name, the dicts of _dir_walker
\* hold the entries of the tree's notebooks in sorted path order; nothing
\* else enters either.
C25_WalkIsDeterministic ==
    /\ report.kind = "frame" =>
          /\ report.rows = RowsOfTree(fs, FilesInOrder(DOMAIN fs))
          /\ \A i, j \in 1..Len(report.rows) :
                i < j => ~row_less(report.rows[j], report.rows[i])
    /\ report.kind = "dict" =>
          /\ report.cell_map
               = EntriesOfTree(fs, PathsInOrder(DOMAIN fs), call.rounded_minutes, "cell_map")
          /\ report.text_report
               = EntriesOfTree(fs, PathsInOrder(DOMAIN fs), call.rounded_minutes, "text_report")
          /\ KeysInOrder(report.cell_map)
          /\ KeysInOrder(report.text_report)

\* Notebooks of two directories were enumerated in an order other than the
\* sorted one, and the walk returned its frame
C25_Witness ==
    /\ report.kind = "frame"
    /\ rows # report.rows
    /\ \E f, g \in files_of(report.rows) : f.dir # g.dir

\* ------------------------------------------------------------ C26

\* The feedstock of the frame a walk returned
DirectoryReport == notebook_report_feedstock(report.rows)

\* Directory d is D or lies below it
IsUnder(d, D) == Len(d) >= Len(D) /\ SubSeq(d, 1, Len(D)) = D

\* The notebooks of the tree that are profiled: not in an excluded directory
ProfiledFiles == {f \in DOMAIN fs : ~HasExcludedComponent(dir_parts(f))}

\* The sum of a column over the document reports of a set of files
RECURSIVE SumOverDocuments(_, _)
SumOverDocuments(files, col) ==
    IF files = {} THEN 0
    ELSE LET f == CHOOSE g \in files : TRUE
         IN  ColumnSum(nb_dir_file_profiler(f, fs[f]).rows, col)
             + SumOverDocuments(files \ {f}, col)

\* C26 as stated: the entry of directory D holds the sums over the
\* documents located in D and in its non-excluded subdirectories, and its
\* 'path' field is its key.
C26_EntrySumsDocumentsUnderDirectory ==
    report.kind = "frame" =>
        \A D \in DOMAIN DirectoryReport :
            /\ DirectoryReport[D].path = D
            /\ \A col \in SummedColumns :
                  DirectoryReport[D][col]
                    = SumOverDocuments({f \in ProfiledFiles : IsUnder(dir_parts(f), D)}, col)

\* C26, amended: the entry of directory D holds the sums over the
\* documents located in D itself, the documents of a subdirectory being
\* summed in the subdirectory's own entry; every non-excluded directory
\* with a reported document has an entry, and an entry's 'path' field is
\* its key.
C26_EntrySumsDocumentsOfDirectory ==
    report.kind = "frame" =>
        /\ DOMAIN DirectoryReport
             = {dir_parts(f) : f \in {g \in ProfiledFiles :
                                         nb_dir_file_profiler(g, fs[g]).rows # <<>>}}
        /\ \A D \in DOMAIN DirectoryReport :
              /\ DirectoryReport[D].path = D
              /\ \A col \in SummedColumns :
                    DirectoryReport[D][col]
                      = SumOverDocuments({f \in ProfiledFiles : dir_parts(f) = D}, col)

\* A notebook in the root and one in its subdirectory a were profiled:
\* two entries, the root's with the words of its own notebook only
C26_Witness ==
    /\ report.kind = "frame"
    /\ DOMAIN DirectoryReport = {<<Root>>, <<Root, "a">>}
    /\ \E f, g \in ProfiledFiles :
          /\ f.dir = <<>> /\ g.dir = <<"a">>
          /\ fs[f] = DocA /\ fs[g] = DocB
          /\ DirectoryReport[<<Root>>].n_words = 4
          /\ DirectoryReport[<<Root, "a">>].n_words = 1

\* ------------------------------------------------------------ C27

\* The extensions a single file path is accepted with, text formats enabled
SupportedFormats == fmts(TRUE)

\* C27: with text formats enabled, the dicts a directory walk of
\* nb_big_parse_nb returns have an entry for every readable document of a
\* supported format (.ipynb, .md, .Rmd, .py) outside the excluded paths.
C27_WalkProfilesEverySupportedFormat ==
    (IsDirWalker /\ report.kind = "dict") =>
        \A f \in DOMAIN fs :
            (/\ splitext(f.name) \in SupportedFormats
             /\ ~HasExcludedComponent(file_parts(f))
             /\ fs[f].state = "ok")
            => f \in entries_of(report.text_report)

\* ------------------------------------------------------------ C28

\* s_k: where segment k of a track starts, for a gap g (in tenths)
RECURSIVE SegmentStart(_, _, _)
SegmentStart(segs, k, g) ==
    IF k = 1 THEN 0
    ELSE SegmentStart(segs, k - 1, g) + 10 * segs[k - 1][1] + 10 + g

\* sum(l_i + 1) + (n - 1) * g
TrackEnd(segs, g) ==
    IF segs = <<>> THEN 0
    ELSE SegmentStart(segs, Len(segs), g) + 10 * segs[Len(segs)][1] + 10

\* C28: in nb_visualiser.nb_vis, with or without a gap colour, every track
\* starts at 0, segment k is drawn from s_k to s_k + l_k + 1 with s_1 = 0
\* and s_(k+1) = s_k + l_k + 1 + g, a gap bar fills exactly the space
\* between two segments, consecutive lines of a track never overlap or go
\* backwards, and a finished track ends at sum(l_i + 1) + (n - 1) * g.
C28_SegmentExtents ==
    (VisStarted /\ IsVisualiserVis /\ canvas.gap >= 0) =>
        /\ \A n \in 1..Len(canvas.drawn) :
              LET item == canvas.drawn[n]
                  segs == call.cell_map.tracks[item.track].segs
                  s == SegmentStart(segs, item.seg, canvas.gap)
              IN  /\ item.xs[1] <= item.xs[2]
                  /\ item.what = "segment" =>
                        item.xs = <<s, s + 10 * segs[item.seg][1] + 10>>
                  /\ item.what = "gap" => item.xs = <<s - canvas.gap, s>>
                  /\ (n > 1 /\ canvas.drawn[n - 1].track = item.track) =>
                        canvas.drawn[n - 1].xs[2] <= item.xs[1]
        /\ (pc = "plot" /\ canvas.seg = 1) => canvas.py = 0
        /\ (pc = "plot" /\ canvas.seg > Len(current_track)) =>
              canvas.py = TrackEnd(current_track, canvas.gap)

\* A track of three segments was drawn without a gap colour and with a
\* gap of more than nothing
C28_Witness ==
    /\ VisStarted /\ IsVisualiserVis
    /\ pc = "done"
    /\ call.gap_colour = ""
    /\ canvas.gap > 0
    /\ \E n \in 1..Len(canvas.drawn) : canvas.drawn[n].seg = 3

\* ------------------------------------------------------------ C29

\* C29: for every markdown text, the fenced-code counts of
\* _report_md_features add up: n_total_code_lines = n_code_lines
\* + n_blank_code_lines + n_single_line_comment_code_lines, an empty line
\* inside a fenced block being counted as a blank line.
C29_MdFencedLinesAddUp ==
    IsMdReturn =>
        ret.n_total_code_lines
            = ret.n_code_lines + ret.n_blank_code_lines
              + ret.n_single_line_comment_code_lines

\* ------------------------------------------------------------ C30

\* No file of the tree yields a row: each is not a notebook, or lies in an
\* excluded directory, or fails to parse
NoProfiledDocument ==
    \A f \in DOMAIN fs :
        \/ ~EndsWithIpynb(f.name)
        \/ HasExcludedComponent(dir_parts(f))
        \/ fs[f].state = "corrupt"

\* C30: over a tree without a profiled document (an empty tree, one
\* without .ipynb files, one whose documents are all excluded or all fail
\* to parse), nb_multidir_profiler does not raise and returns an empty
\* report.
C30_EmptyWalkReturnsEmptyReport ==
    (IsMultidir /\ NoProfiledDocument) =>
        /\ wpc # "raised"
        /\ wpc = "done" => (report.kind = "frame" /\ report.rows = <<>>)

====
